---- MODULE Spec2Model ----
(***************************************************************************)
(* Technical memory of the Discord workspace bot: MemoryService (tag       *)
(* extraction, write path, read path, summary) and the memory reset of     *)
(* AdminCommandService, over the four MongoDB collections they share; the  *)
(* dispatch of MessageHandler.handleMessage; and the configuration cache   *)
(* of ChannelConfigService.                                                *)
(***************************************************************************)
EXTENDS Integers, Sequences, FiniteSets, TLC

VARIABLES
    initialized,        \* MemoryService.initialized, of each MemoryService instance
    collections,        \* each instance: its collection handles are assigned (not null)
    discordLogs,        \* collection discord_interactions, in insertion order
    projectContexts,    \* collection project_contexts, in insertion order
    skillProgressions,  \* collection skill_progressions, in insertion order
    technicalLogs,      \* collection technical_sessions (written outside this program)
    now,                \* the clock, in hours
    pendingConfirmations, \* AdminCommandService.pendingConfirmations, as a set of entries
    storeCalls,         \* the store operations the last call issued, in order
    ret,                \* the last call: its operation and arguments, and how it came
                        \* back to its caller
    inFlight,           \* the handler calls suspended at an await, as a set of frames
    channelConfigs,     \* collection channel_configurations: the documents without guildId
    configCache,        \* ChannelConfigService.configCache, as a set of entries
    lastCacheUpdate,    \* ChannelConfigService.lastCacheUpdate
    dateNow             \* Date.now() as ChannelConfigService reads it, in minutes

\* the state of ChannelConfigService and the calls in flight
serviceVars == <<inFlight, channelConfigs, configCache, lastCacheUpdate, dateNow>>

vars == <<initialized, collections, discordLogs, projectContexts,
          skillProgressions, technicalLogs, now, pendingConfirmations, storeCalls, ret,
          inFlight, channelConfigs, configCache, lastCacheUpdate, dateNow>>

-----------------------------------------------------------------------------
(* Bounds of the model *)

MaxLogs == 2
MaxFaultLogs == 1
MaxPending == 1
MaxRing == 11
MaxBulk == 51
MaxBulkGeneral == 2
MaxInFlight == 2
MaxMinutes == 11

-----------------------------------------------------------------------------
(* Strings: JavaScript's String.prototype functions on TLC strings *)

UpperChars == "ABCDEFGHIJKLMNOPQRSTUVWXYZ"
LowerChars == "abcdefghijklmnopqrstuvwxyz"
DigitChars == "0123456789"

CharAt(s, i) == SubSeq(s, i, i)

\* the index of character c in alphabet s, 0 when absent
IndexIn(s, c) ==
    IF \E i \in 1..Len(s) : CharAt(s, i) = c
    THEN CHOOSE i \in 1..Len(s) : CharAt(s, i) = c
    ELSE 0

LowerChar(c) ==
    IF IndexIn(UpperChars, c) > 0 THEN CharAt(LowerChars, IndexIn(UpperChars, c)) ELSE c

RECURSIVE toLowerCase(_)
toLowerCase(s) ==
    IF s = "" THEN "" ELSE LowerChar(CharAt(s, 1)) \o toLowerCase(SubSeq(s, 2, Len(s)))

StartsAt(s, i, pat) ==
    /\ i >= 1
    /\ i + Len(pat) - 1 <= Len(s)
    /\ SubSeq(s, i, i + Len(pat) - 1) = pat

\* String.prototype.includes
includes(s, pat) == \E i \in 1..(Len(s) + 1) : StartsAt(s, i, pat)

\* String.prototype.replace(pattern, by) with a string pattern: the first occurrence
replace(s, pat, by) ==
    IF includes(s, pat)
    THEN LET i == CHOOSE k \in 1..Len(s) :
                      StartsAt(s, k, pat) /\ \A j \in 1..(k - 1) : ~StartsAt(s, j, pat)
         IN  SubSeq(s, 1, i - 1) \o by \o SubSeq(s, i + Len(pat), Len(s))
    ELSE s

IsSpace(c) == c \in {" ", "\n", "\t"}

\* String.prototype.trim
RECURSIVE trim(_)
trim(s) ==
    IF s = "" THEN ""
    ELSE IF IsSpace(CharAt(s, 1)) THEN trim(SubSeq(s, 2, Len(s)))
    ELSE IF IsSpace(CharAt(s, Len(s))) THEN trim(SubSeq(s, 1, Len(s) - 1))
    ELSE s

\* Array.prototype.join
RECURSIVE join(_, _)
join(seq, sep) ==
    IF seq = <<>> THEN ""
    ELSE IF Len(seq) = 1 THEN seq[1]
    ELSE seq[1] \o sep \o join(Tail(seq), sep)

\* Array.prototype.slice(-n): the last n elements
SliceLast(seq, n) ==
    IF Len(seq) <= n THEN seq ELSE SubSeq(seq, Len(seq) - n + 1, Len(seq))

\* Array.prototype.slice(0, n): the first n elements
SliceFirst(seq, n) ==
    IF Len(seq) <= n THEN seq ELSE SubSeq(seq, 1, n)

Range(seq) == {seq[i] : i \in 1..Len(seq)}

RECURSIVE SumSeq(_)
SumSeq(seq) == IF seq = <<>> THEN 0 ELSE seq[1] + SumSeq(Tail(seq))

Min(a, b) == IF a <= b THEN a ELSE b

-----------------------------------------------------------------------------
(* Tag extraction: the pure helpers of MemoryService *)

languages ==
    << "javascript", "typescript", "python", "java", "c++", "c#", "go", "rust", "php", "ruby",
       "kotlin", "swift", "scala", "clojure", "haskell", "elm", "dart", "r", "matlab", "sql",
       "html", "css", "bash", "shell", "powershell", "lua", "perl", "elixir", "erlang", "f#" >>

frameworks ==
    << "react", "vue", "angular", "svelte", "express", "fastapi", "django", "flask", "spring",
       "laravel", "rails", "nextjs", "nuxt", "gatsby", "astro", "ember", "backbone", "jquery",
       "bootstrap", "tailwind", "material-ui", "ant-design", "chakra", "redux", "mobx", "vuex",
       "tensorflow", "pytorch", "keras", "scikit-learn", "pandas", "numpy", "matplotlib" >>

technologies ==
    << "docker", "kubernetes", "aws", "azure", "gcp", "firebase", "mongodb", "postgresql",
       "mysql", "redis", "elasticsearch", "graphql", "rest", "api", "microservices", "serverless",
       "git", "github", "gitlab", "jenkins", "ci/cd", "terraform", "ansible", "nginx", "apache",
       "node.js", "deno", "webpack", "vite", "babel", "typescript", "jest", "cypress", "playwright" >>

detectProgrammingLanguages(text) ==
    LET lowerText == toLowerCase(text)
        hit(lang) == includes(lowerText, lang) \/ includes(lowerText, replace(lang, "#", "sharp"))
    IN  SelectSeq(languages, hit)

detectFrameworks(text) ==
    LET lowerText == toLowerCase(text)
        hit(framework) == includes(lowerText, framework)
    IN  SelectSeq(frameworks, hit)

detectTechnologies(text) ==
    LET lowerText == toLowerCase(text)
        hit(tech) == includes(lowerText, tech)
    IN  SelectSeq(technologies, hit)

\* The backtick cannot be written in a string of this language: "~" stands for it.
Backtick == "~"
Fence == Backtick \o Backtick \o Backtick

\* the first index >= i where pat starts, 0 when there is none
NextAt(s, i, pat) ==
    IF \E k \in i..Len(s) : StartsAt(s, k, pat)
    THEN CHOOSE k \in i..Len(s) : StartsAt(s, k, pat) /\ \A j \in i..(k - 1) : ~StartsAt(s, j, pat)
    ELSE 0

\* the number of matches of /```[\s\S]*?```/g from index i on
RECURSIVE CountFenced(_, _)
CountFenced(s, i) ==
    LET open == NextAt(s, i, Fence)
        close == IF open = 0 THEN 0 ELSE NextAt(s, open + 3, Fence)
    IN  IF open = 0 \/ close = 0 THEN 0 ELSE 1 + CountFenced(s, close + 3)

\* the end of the match of /`[^`]+`/ that starts at index p, 0 when there is none
InlineEnd(s, p) ==
    LET close == NextAt(s, p + 1, Backtick)
    IN  IF CharAt(s, p) = Backtick /\ close > p + 1 THEN close ELSE 0

\* the number of matches of /`[^`]+`/g from index i on
RECURSIVE CountInline(_, _)
CountInline(s, i) ==
    IF i > Len(s) THEN 0
    ELSE IF InlineEnd(s, i) > 0 THEN 1 + CountInline(s, InlineEnd(s, i) + 1)
    ELSE CountInline(s, i + 1)

extractCodeBlocks(text) ==
    LET codeBlocks == CountFenced(text, 1)
        inlineCode == CountInline(text, 1)
    IN  [blocks |-> codeBlocks, inline |-> inlineCode,
         hasCode |-> (codeBlocks > 0 \/ inlineCode > 0)]

\* the debugging rule asked before the how-to rule
classifyDebuggingFirst(message) ==
    LET lowerMessage == toLowerCase(message)
        has(w) == includes(lowerMessage, w)
    IN  IF has("debug") \/ has("error") \/ has("fix") THEN "debugging"
        ELSE IF has("how to") \/ has("how do") THEN "how-to"
        ELSE IF has("review") \/ has("feedback") THEN "code-review"
        ELSE IF has("best practice") \/ has("recommend") THEN "best-practices"
        ELSE IF has("explain") \/ has("what is") THEN "explanation"
        ELSE IF has("optimize") \/ has("performance") THEN "optimization"
        ELSE IF has("design") \/ has("architecture") THEN "architecture"
        ELSE "general"

classifyQuestionType(message) ==
    LET lowerMessage == toLowerCase(message)
        has(w) == includes(lowerMessage, w)
    IN  IF has("how to") \/ has("how do") THEN "how-to"
        ELSE IF has("debug") \/ has("error") \/ has("fix") THEN "debugging"
        ELSE IF has("review") \/ has("feedback") THEN "code-review"
        ELSE IF has("best practice") \/ has("recommend") THEN "best-practices"
        ELSE IF has("explain") \/ has("what is") THEN "explanation"
        ELSE IF has("optimize") \/ has("performance") THEN "optimization"
        ELSE IF has("design") \/ has("architecture") THEN "architecture"
        ELSE "general"

assessComplexity(message) ==
    LET lowerMessage == toLowerCase(message)
        has(w) == includes(lowerMessage, w)
        medium == {"implement", "create", "build", "design", "integrate"}
        complex == {"architecture", "scalable", "optimize", "refactor", "complex",
                    "advanced", "performance"}
    IN  IF \E w \in complex : has(w) THEN "complex"
        ELSE IF \E w \in medium : has(w) THEN "medium"
        ELSE "simple"

detectProjectMention(message) ==
    LET lowerMessage == toLowerCase(message)
        projectIndicators == {"project", "app", "application", "system", "platform", "tool",
                              "service", "website"}
    IN  \E w \in projectIndicators : includes(lowerMessage, w)

\* a character of the class [a-zA-Z0-9\s-]
IsNameChar(c) ==
    \/ IndexIn(LowerChars, LowerChar(c)) > 0
    \/ IndexIn(DigitChars, c) > 0
    \/ IsSpace(c)
    \/ c = "-"

\* the first index >= i that holds no white space (Len(s) + 1 when there is none)
RECURSIVE SkipSpace(_, _)
SkipSpace(s, i) == IF i <= Len(s) /\ IsSpace(CharAt(s, i)) THEN SkipSpace(s, i + 1) ELSE i

\* the last index of the run of name characters that starts at i (i - 1 when it is empty)
RECURSIVE NameEnd(_, _)
NameEnd(s, i) == IF i <= Len(s) /\ IsNameChar(CharAt(s, i)) THEN NameEnd(s, i + 1) ELSE i - 1

\* /\s+([a-zA-Z0-9\s-]+)/ anchored at index i: the captured group as <<text>>, or <<>>.
\* The white space is greedy; it gives one character back to the group only when the
\* character after the white space is no name character.
SpaceThenName(s, i) ==
    LET w == SkipSpace(s, i)
    IN  IF w = i THEN <<>>
        ELSE IF w <= Len(s) /\ IsNameChar(CharAt(s, w)) THEN <<SubSeq(s, w, NameEnd(s, w))>>
        ELSE IF w - i >= 2 THEN <<CharAt(s, w - 1)>>
        ELSE <<>>

\* the capture of the leftmost match of a pattern whose capture at index i is At(i)
FirstCapture(s, At(_)) ==
    IF \E i \in 1..Len(s) : At(i) # <<>>
    THEN At(CHOOSE i \in 1..Len(s) : At(i) # <<>> /\ \A j \in 1..(i - 1) : At(j) = <<>>)
    ELSE <<>>

\* /(?:project|app|application)\s+(?:called|named|for)\s+([a-zA-Z0-9\s-]+)/i
NamedPattern(message) ==
    LET low == toLowerCase(message)
        At(i) ==
            IF \E k1 \in {"project", "app", "application"}, k2 \in {"called", "named", "for"} :
                   /\ StartsAt(low, i, k1)
                   /\ SkipSpace(low, i + Len(k1)) > i + Len(k1)
                   /\ StartsAt(low, SkipSpace(low, i + Len(k1)), k2)
                   /\ SpaceThenName(message, SkipSpace(low, i + Len(k1)) + Len(k2)) # <<>>
            THEN LET k == CHOOSE kk \in {"project", "app", "application"} \X {"called", "named", "for"} :
                              /\ StartsAt(low, i, kk[1])
                              /\ SkipSpace(low, i + Len(kk[1])) > i + Len(kk[1])
                              /\ StartsAt(low, SkipSpace(low, i + Len(kk[1])), kk[2])
                              /\ SpaceThenName(message, SkipSpace(low, i + Len(kk[1])) + Len(kk[2])) # <<>>
                 IN  SpaceThenName(message, SkipSpace(low, i + Len(k[1])) + Len(k[2]))
            ELSE <<>>
    IN  FirstCapture(message, At)

\* /working on\s+([a-zA-Z0-9\s-]+)(?:\s+project|\s+app)?/i: the group is greedy, so the
\* optional tail always matches the empty string
WorkingOnPattern(message) ==
    LET low == toLowerCase(message)
        At(i) == IF StartsAt(low, i, "working on") THEN SpaceThenName(message, i + 10) ELSE <<>>
    IN  FirstCapture(message, At)

\* /building\s+([a-zA-Z0-9\s-]+)/i
BuildingPattern(message) ==
    LET low == toLowerCase(message)
        At(i) == IF StartsAt(low, i, "building") THEN SpaceThenName(message, i + 8) ELSE <<>>
    IN  FirstCapture(message, At)

\* /my\s+([a-zA-Z0-9\s-]+)\s+(?:project|app|application)/i: the group takes the longest
\* run that is still followed by one white space and a keyword
MyPattern(message) ==
    LET low == toLowerCase(message)
        Ends(w) == {e \in w..NameEnd(message, w) :
                        /\ e + 1 <= Len(message)
                        /\ IsSpace(CharAt(message, e + 1))
                        /\ \E k \in {"project", "app", "application"} : StartsAt(low, e + 2, k)}
        At(i) ==
            LET w == SkipSpace(low, i + 2)
            IN  IF StartsAt(low, i, "my") /\ w > i + 2 /\ Ends(w) # {}
                THEN <<SubSeq(message, w, CHOOSE e \in Ends(w) : \A f \in Ends(w) : f <= e)>>
                ELSE <<>>
    IN  FirstCapture(message, At)

\* <<name>> when a pattern matches (the name may be empty after trim), <<>> for null
extractProjectName(message) ==
    LET patterns == <<NamedPattern(message), WorkingOnPattern(message),
                      BuildingPattern(message), MyPattern(message)>>
        matched == SelectSeq(patterns, LAMBDA m : m # <<>>)
    IN  IF matched = <<>> THEN <<>>
        ELSE <<SliceFirst(trim(matched[1][1]), 50)>>

progressValue(complexity) ==
    IF complexity = "complex" THEN 3 ELSE IF complexity = "medium" THEN 2 ELSE 1

detectSkillsFromInteraction(interaction) ==
    LET text == interaction.userMessage \o " " \o interaction.botResponse
        complexity == assessComplexity(interaction.userMessage)
        skill(name, category, context) ==
            [name |-> name, category |-> category, context |-> context,
             difficulty |-> complexity, progressValue |-> progressValue(complexity)]
        langs == detectProgrammingLanguages(text)
        fws == detectFrameworks(text)
        techs == detectTechnologies(text)
    IN  [i \in 1..Len(langs) |-> skill(langs[i], "programming", "language-usage")]
        \o [i \in 1..Len(fws) |-> skill(fws[i], "framework", "framework-usage")]
        \o [i \in 1..Len(techs) |-> skill(techs[i], "technology", "tech-usage")]

extractTechnicalContext(interaction) ==
    LET text == interaction.userMessage \o " " \o interaction.botResponse
    IN  [languages |-> detectProgrammingLanguages(text),
         frameworks |-> detectFrameworks(text),
         technologies |-> detectTechnologies(text),
         codeBlocks |-> extractCodeBlocks(text),
         questionType |-> classifyQuestionType(interaction.userMessage),
         complexity |-> assessComplexity(interaction.userMessage),
         isProjectRelated |-> detectProjectMention(interaction.userMessage)]

\* String.prototype.split(' ')
RECURSIVE split(_)
split(s) ==
    LET sp == NextAt(s, 1, " ")
    IN  IF sp = 0 THEN <<s>> ELSE <<SubSeq(s, 1, sp - 1)>> \o split(SubSeq(s, sp + 1, Len(s)))

extractTopicFromMessage(message) ==
    LET words == SelectSeq(split(toLowerCase(message)), LAMBDA word : Len(word) > 3)
        commonWords == {"the", "and", "for", "are", "but", "not", "you", "all", "can", "her",
                        "was", "one", "our", "had", "have", "what", "were"}
        meaningfulWords == SelectSeq(words, LAMBDA word : word \notin commonWords)
        topic == join(SliceFirst(meaningfulWords, 3), " ")
    IN  IF topic = "" THEN "general" ELSE topic

\* the test of analyzeTaskBreakdownPatterns on one message
IsTaskBreakdown(message) ==
    \/ includes(toLowerCase(message), "task")
    \/ includes(toLowerCase(message), "step")
    \/ includes(toLowerCase(message), "plan")

-----------------------------------------------------------------------------
(* The texts the model draws from. The helpers above are pure: what they return for
   each text is computed once, in Analysis, and the operations below look it up. *)

Messages == {"How do I optimize React components?",
             "working on my blog app in python",
             "hello"}
RingMessages == {"basic python", "advanced python"}
BulkMessages == {"hello"}
AdminMessages == {"working on my blog app in python", "hello"}
ClockMessages == {"python tips", "go tips"}
ScenarioMessages == <<"build this in javascript", "a simple react question",
                      "optimize my javascript">>
QuestionMessages == {"how to start", "review this"}
CommandMessages == {"!export-config", "!update-config coding model gpt-4"}
SkillMessages == {"typescript generics", "python tips"}
BotResponse == "ok"

AllMessages == Messages \cup RingMessages \cup BulkMessages \cup AdminMessages
               \cup ClockMessages \cup {ScenarioMessages[i] : i \in 1..3}
               \cup QuestionMessages \cup CommandMessages \cup SkillMessages

Analyze(userMessage) ==
    LET interaction == [userMessage |-> userMessage, botResponse |-> BotResponse]
        text == userMessage \o " " \o BotResponse
    IN  [technicalContext |-> extractTechnicalContext(interaction),
         detectedSkills |-> detectSkillsFromInteraction(interaction),
         projectMention |-> extractProjectName(userMessage),
         technologies |-> detectTechnologies(text),
         languages |-> detectProgrammingLanguages(text),
         questionType |-> classifyQuestionType(userMessage),
         topic |-> extractTopicFromMessage(userMessage),
         taskBreakdown |-> IsTaskBreakdown(userMessage)]

Analysis == [m \in AllMessages |-> Analyze(m)]

-----------------------------------------------------------------------------
(* The store: MongoDB collections as sequences of documents, in insertion order *)

\* the index of the first document of docs that Match accepts, 0 when there is none
FirstIndex(docs, Match(_)) ==
    IF \E i \in 1..Len(docs) : Match(docs[i])
    THEN CHOOSE i \in 1..Len(docs) : Match(docs[i]) /\ \A j \in 1..(i - 1) : ~Match(docs[j])
    ELSE 0

\* $addToSet with $each: the items the array does not hold yet, appended in order
AddToSet(arr, items) == arr \o SelectSeq(items, LAMBDA x : x \notin Range(arr))

\* $inc of a field that may be absent
Inc(obj, field, by) ==
    IF field \in DOMAIN obj THEN [obj EXCEPT ![field] = @ + by]
    ELSE [k \in DOMAIN obj \cup {field} |-> IF k = field THEN by ELSE obj[k]]

EmptyObject == [k \in {} |-> k]

\* one store operation as the log of a call records it
Call(op, coll, key, ok) == [op |-> op, coll |-> coll, key |-> key, ok |-> ok]

\* $slice: -10 of updateSkillProgression
RingSize == 10

\* $slice: n in place of $slice: -n: the first n elements are kept
PushSliceOldest(arr, item, n) == SliceFirst(Append(arr, item), n)

\* $push with $each and $slice: -n
PushSlice(arr, item, n) == SliceLast(Append(arr, item), n)

\* updateOne(filter, update, {upsert: true}): the first document Match accepts is
\* updated; when there is none, the fresh document is updated and inserted
Upsert(docs, Match(_), fresh, Update(_)) ==
    IF FirstIndex(docs, Match) > 0
    THEN [docs EXCEPT ![FirstIndex(docs, Match)] = Update(@)]
    ELSE Append(docs, Update(fresh))

-----------------------------------------------------------------------------
(* MemoryService: initialize and the write path *)

\* a connect on every call: the early return of initialize left out
initializeAnew(flags, handles, inst, failAt) ==
    IF failAt = "connect"
    THEN [threw |-> TRUE, initialized |-> flags, collections |-> handles,
          calls |-> <<Call("connect", "", "", FALSE)>>]
    ELSE [threw |-> FALSE, initialized |-> [flags EXCEPT ![inst] = TRUE],
          collections |-> [handles EXCEPT ![inst] = TRUE],
          calls |-> <<Call("connect", "", "", TRUE)>>]

\* initialize() of one instance, given the initialized flags and the collection
\* handles of the instances; failAt is where the driver rejects: "none", "connect"
\* (client.connect) or "createIndex" (after the collection handles are assigned)
initializeFrom(flags, handles, inst, failAt) ==
    IF flags[inst]
    THEN [threw |-> FALSE, initialized |-> flags, collections |-> handles,
          calls |-> <<>>]
    ELSE IF failAt = "connect"
    THEN [threw |-> TRUE, initialized |-> flags, collections |-> handles,
          calls |-> <<Call("connect", "", "", FALSE)>>]
    ELSE IF failAt = "createIndex"
    THEN [threw |-> TRUE, initialized |-> flags,
          collections |-> [handles EXCEPT ![inst] = TRUE],
          calls |-> <<Call("connect", "", "", TRUE),
                      Call("createIndex", "discord_interactions", "", FALSE)>>]
    ELSE [threw |-> FALSE, initialized |-> [flags EXCEPT ![inst] = TRUE],
          collections |-> [handles EXCEPT ![inst] = TRUE],
          calls |-> <<Call("connect", "", "", TRUE)>>]

\* initialize() of one instance of the running program
initialize(inst, failAt) == initializeFrom(initialized, collections, inst, failAt)

\* the update document of updateProjectContext applied to a matched or upserted
\* document; analysis is what the helpers return for the interaction's texts
ProjectUpdate(doc, interaction, analysis) ==
    [doc EXCEPT
            !.userId = interaction.userId,
            !.projectName = analysis.projectMention[1],
            !.lastActivity = now,
            !.channel = interaction.channel,
            !.interactions = Append(@, [timestamp |-> now,
                                        message |-> interaction.userMessage,
                                        response |-> interaction.botResponse,
                                        channel |-> interaction.channel]),
            !.technologies = AddToSet(@, analysis.technologies),
            !.languages = AddToSet(@, analysis.languages)]

\* projectContexts.updateOne({userId, projectName}, update, {upsert: true})
UpsertProject(docs, interaction, analysis) ==
    Upsert(docs,
           LAMBDA d : d.userId = interaction.userId
                      /\ d.projectName = analysis.projectMention[1],
           [userId |-> interaction.userId, projectName |-> analysis.projectMention[1],
            lastActivity |-> now, channel |-> interaction.channel,
            interactions |-> <<>>, technologies |-> <<>>, languages |-> <<>>],
           LAMBDA d : ProjectUpdate(d, interaction, analysis))

\* if (projectMention): a match whose name is not empty
HasProject(projectMention) == projectMention # <<>> /\ projectMention[1] # ""

\* the body of updateProjectContext, given what the helpers return
ProjectContextUpdate(docs, interaction, analysis, fails) ==
    IF HasProject(analysis.projectMention)
    THEN [docs |-> IF fails THEN docs ELSE UpsertProject(docs, interaction, analysis),
          calls |-> <<Call("updateOne", "project_contexts", analysis.projectMention[1], ~fails)>>]
    ELSE [docs |-> docs, calls |-> <<>>]

\* updateProjectContext: the documents afterwards and the store calls issued
updateProjectContext(docs, interaction, fails) ==
    ProjectContextUpdate(docs, interaction, Analysis[interaction.userMessage], fails)

\* the update document of updateSkillProgression applied to a matched or upserted document
SkillUpdate(doc, interaction, skill) ==
    [doc EXCEPT
        !.userId = interaction.userId,
        !.skill = skill.name,
        !.lastPracticed = now,
        !.interactionCount = @ + 1,
        !.levelProgress = Inc(@, skill.category, skill.progressValue),
        !.recentInteractions = PushSlice(@, [timestamp |-> now,
                                             channel |-> interaction.channel,
                                             context |-> skill.context,
                                             difficulty |-> skill.difficulty], RingSize)]

\* the filter {skill} in place of {userId, skill}
UpsertSkillOfAnyUser(docs, interaction, skill) ==
    Upsert(docs,
           LAMBDA d : d.skill = skill.name,
           [userId |-> interaction.userId, skill |-> skill.name, lastPracticed |-> now,
            interactionCount |-> 0, levelProgress |-> EmptyObject,
            recentInteractions |-> <<>>],
           LAMBDA d : SkillUpdate(d, interaction, skill))

\* skillProgressions.updateOne({userId, skill}, update, {upsert: true})
UpsertSkill(docs, interaction, skill) ==
    Upsert(docs,
           LAMBDA d : d.userId = interaction.userId /\ d.skill = skill.name,
           [userId |-> interaction.userId, skill |-> skill.name, lastPracticed |-> now,
            interactionCount |-> 0, levelProgress |-> EmptyObject,
            recentInteractions |-> <<>>],
           LAMBDA d : SkillUpdate(d, interaction, skill))

\* the loop of updateSkillProgression over detectedSkills[k..]; failing holds the
\* indices of the detected skills whose updateOne the store rejects
RECURSIVE SkillLoop(_, _, _, _, _)
SkillLoop(docs, interaction, detectedSkills, k, failing) ==
    IF k > Len(detectedSkills) THEN [docs |-> docs, calls |-> <<>>]
    ELSE [SkillLoop(IF k \in failing THEN docs
                    ELSE UpsertSkill(docs, interaction, detectedSkills[k]),
                    interaction, detectedSkills, k + 1, failing)
          EXCEPT !.calls = <<Call("updateOne", "skill_progressions", detectedSkills[k].name,
                                  k \notin failing)>> \o @]

updateSkillProgression(docs, interaction, failing) ==
    SkillLoop(docs, interaction, Analysis[interaction.userMessage].detectedSkills, 1, failing)

\* a replaceOne in place of the insertOne: only the newest record is kept
StoreEffectsReplacing(logs, project, skills) ==
    [discordLogs |-> SliceLast(logs, 1),
     projectContexts |-> project.docs,
     skillProgressions |-> skills.docs,
     calls |-> <<Call("insertOne", "discord_interactions", "", TRUE)>>
               \o project.calls \o skills.calls]

\* what the try block of storeInteraction leaves behind when the insert went through
StoreEffects(logs, project, skills) ==
    [discordLogs |-> logs,
     projectContexts |-> project.docs,
     skillProgressions |-> skills.docs,
     calls |-> <<Call("insertOne", "discord_interactions", "", TRUE)>>
               \o project.calls \o skills.calls]

\* the document storeInteraction inserts: the interaction with its technical context
LogRecord(interaction) ==
    [userId |-> interaction.userId, channel |-> interaction.channel,
     userMessage |-> interaction.userMessage,
     botResponse |-> interaction.botResponse,
     timestamp |-> interaction.timestamp,
     technicalContext |-> Analysis[interaction.userMessage].technicalContext]

\* the try block of storeInteraction over the three collections of S, nothing rejected
storeInteractionOver(S, interaction) ==
    StoreEffects(Append(S.discordLogs, LogRecord(interaction)),
                 updateProjectContext(S.projectContexts, interaction, FALSE),
                 updateSkillProgression(S.skillProgressions, interaction, {}))

\* the body of storeInteraction after initialize: the try block and its catch
StoreBody(interaction, f) ==
    IF f.insert
    THEN [discordLogs |-> discordLogs, projectContexts |-> projectContexts,
          skillProgressions |-> skillProgressions,
          calls |-> <<Call("insertOne", "discord_interactions", "", FALSE)>>]
    ELSE StoreEffects(
             Append(discordLogs, LogRecord(interaction)),
             updateProjectContext(projectContexts, interaction, f.project),
             updateSkillProgression(skillProgressions, interaction, f.skills))

\* storeInteraction(interaction) on the message handler's instance
StoreInteraction(interaction, f) ==
    \E init \in {initialize("handler", f.init)}, body \in {StoreBody(interaction, f)} :
        /\ initialized' = init.initialized
        /\ collections' = init.collections
        /\ IF init.threw
           THEN /\ UNCHANGED <<serviceVars, discordLogs, projectContexts, skillProgressions>>
                /\ storeCalls' = init.calls
                /\ ret' = [op |-> "storeInteraction", outcome |-> "threw",
                           userId |-> interaction.userId,
                           message |-> interaction.userMessage, value |-> EmptyObject]
           ELSE /\ discordLogs' = body.discordLogs
                /\ projectContexts' = body.projectContexts
                /\ skillProgressions' = body.skillProgressions
                /\ storeCalls' = init.calls \o body.calls
                /\ ret' = [op |-> "storeInteraction", outcome |-> "returned",
                           userId |-> interaction.userId,
                           message |-> interaction.userMessage, value |-> EmptyObject]
        /\ UNCHANGED <<serviceVars, technicalLogs, now, pendingConfirmations>>

-----------------------------------------------------------------------------
(* MemoryService: the read path *)

Map(seq, F(_)) == [i \in 1..Len(seq) |-> F(seq[i])]

\* arr.filter(x => x === item).length
Count(arr, item) == Len(SelectSeq(arr, LAMBDA x : x = item))

\* [...new Set(arr)]: the first occurrence of each element, in order
Dedupe(arr) ==
    Map(SelectSeq([i \in 1..Len(arr) |-> i],
                  LAMBDA i : \A j \in 1..(i - 1) : arr[j] # arr[i]),
        LAMBDA i : arr[i])

\* counts[k] = 1 in place of counts[k] = (counts[k] || 0) + 1
TallyToOne(keys) == Map(Dedupe(keys), LAMBDA k : [key |-> k, count |-> 1])

\* A JavaScript object used as a counter table, after the loop
\* counts[k] = (counts[k] || 0) + 1 over keys: <<[key, count]>> in the order in which
\* Object.entries lists the keys (insertion order for names)
Tally(keys) == Map(Dedupe(keys), LAMBDA k : [key |-> k, count |-> Count(keys, k)])

\* the place of each element in descending order of Key, equal keys in their given order
Places(seq, Key(_)) ==
    [i \in 1..Len(seq) |->
        1 + Cardinality({j \in 1..Len(seq) :
                            \/ Key(seq[j]) > Key(seq[i])
                            \/ Key(seq[j]) = Key(seq[i]) /\ j < i})]

\* the elements of seq put at their places
Placed(seq, places) ==
    [p \in 1..Len(seq) |-> seq[CHOOSE i \in 1..Len(seq) : places[i] = p]]

\* Array.prototype.sort((a, b) => Key(b) - Key(a)): descending and stable
SortDesc(seq, Key(_)) == Placed(seq, Places(seq, Key))

\* Array.prototype.flat of a list of lists
RECURSIVE Flatten(_)
Flatten(seqs) ==
    IF seqs = <<>> THEN <<>>
    ELSE IF Len(seqs) = 1 THEN seqs[1]
    ELSE Flatten(SubSeq(seqs, 1, Len(seqs) \div 2))
         \o Flatten(SubSeq(seqs, Len(seqs) \div 2 + 1, Len(seqs)))

\* cutoffDate: the clock minus lookbackDays days
CutoffDate(lookbackDays) == now - 24 * lookbackDays

\* the limits of the find() calls of the read path
InsightLimit == 10
PatternLimit == 50
ProjectLimit == 5
SkillLimit == 10

getRecentTechnicalInsights(sessions, userId, cutoffDate, fails) ==
    LET found == SelectSeq(sessions,
                           LAMBDA s : s.userId = userId /\ s.createdAt >= cutoffDate)
        recentSessions == SliceFirst(SortDesc(found, LAMBDA s : s.createdAt), InsightLimit)
        insight(session) == [date |-> session.createdAt, focusArea |-> session.focusArea,
                             technologies |-> session.technologies,
                             productivity |-> session.productivity]
    IN  IF fails THEN <<>> ELSE Map(recentSessions, insight)

getTechnicalDiscordPatterns(logs, userId, cutoffDate, fails) ==
    LET found == SelectSeq(logs,
                           LAMBDA d : d.userId = userId /\ d.timestamp >= cutoffDate)
        recentInteractions == SliceFirst(SortDesc(found, LAMBDA d : d.timestamp), PatternLimit)
        channelBreakdown == Tally(Map(recentInteractions, LAMBDA d : d.channel))
        languageUsage ==
            Tally(Flatten(Map(recentInteractions, LAMBDA d : d.technicalContext.languages)))
        frameworkUsage ==
            Tally(Flatten(Map(recentInteractions, LAMBDA d : d.technicalContext.frameworks)))
        questionTypes ==
            Tally(Map(recentInteractions, LAMBDA d : d.technicalContext.questionType))
        tier(c) == Len(SelectSeq(recentInteractions, LAMBDA d : d.technicalContext.complexity = c))
        byCount(e) == e.count
        top3(table) == Map(SliceFirst(SortDesc(table, byCount), 3), LAMBDA e : e.key)
    IN  IF fails THEN EmptyObject
        ELSE [totalInteractions |-> Len(recentInteractions),
              channelBreakdown |-> channelBreakdown,
              languageUsage |-> languageUsage,
              frameworkUsage |-> frameworkUsage,
              questionTypes |-> questionTypes,
              complexityDistribution |->
                  [simple |-> tier("simple"), medium |-> tier("medium"), complex |-> tier("complex")],
              \* codeBlocks is an object without a length: the filter keeps nothing
              recentCodingPatterns |-> <<>>,
              mostActiveChannel |->
                  IF channelBreakdown = <<>> THEN "general"
                  ELSE SortDesc(channelBreakdown, byCount)[1].key,
              preferredLanguages |-> top3(languageUsage),
              preferredFrameworks |-> top3(frameworkUsage)]

getRecentProjectContexts(projects, userId, cutoffDate, fails) ==
    LET found == SelectSeq(projects,
                           LAMBDA p : p.userId = userId /\ p.lastActivity >= cutoffDate)
        recentProjects == SliceFirst(SortDesc(found, LAMBDA p : p.lastActivity), ProjectLimit)
        view(project) ==
            [name |-> project.projectName,
             lastActivity |-> project.lastActivity,
             technologies |-> project.technologies,
             languages |-> project.languages,
             interactionCount |-> Len(project.interactions),
             channels |-> Dedupe(Map(project.interactions, LAMBDA i : i.channel)),
             recentTopics |-> Map(SliceLast(project.interactions, 3),
                                  LAMBDA i : Analysis[i.message].topic)]
    IN  IF fails THEN <<>> ELSE Map(recentProjects, view)

\* a difficulty that is not in the table (unknown, of an empty group) scored as medium
difficultyScoreOrMedium(difficulty) ==
    IF difficulty = "complex" THEN 3 ELSE IF difficulty = "simple" THEN 1 ELSE 2

\* difficultyScores[difficulty] || 1
difficultyScore(difficulty) ==
    IF difficulty = "complex" THEN 3 ELSE IF difficulty = "medium" THEN 2 ELSE 1

\* the average rounded down to a whole score before it is named
floorAverageDifficulty(interactions) ==
    LET totalScore == SumSeq(Map(interactions, LAMBDA i : difficultyScore(i.difficulty)))
    IN  IF Len(interactions) = 0 THEN "unknown"
        ELSE IF totalScore < 2 * Len(interactions) THEN "simple"
        ELSE IF totalScore < 3 * Len(interactions) THEN "medium"
        ELSE "complex"

calculateAverageDifficulty(interactions) ==
    LET totalScore == SumSeq(Map(interactions, LAMBDA i : difficultyScore(i.difficulty)))
    IN  IF Len(interactions) = 0 THEN "unknown"
        ELSE IF 2 * totalScore < 3 * Len(interactions) THEN "simple"
        ELSE IF 2 * totalScore < 5 * Len(interactions) THEN "medium"
        ELSE "complex"

calculateLearningTrend(interactions) ==
    LET recentInteractions == SliceLast(interactions, 5)
        olderInteractions == SubSeq(interactions, 1, Len(interactions) - 5)
        recentScore == difficultyScore(calculateAverageDifficulty(recentInteractions))
        olderScore == difficultyScore(calculateAverageDifficulty(olderInteractions))
    IN  IF Len(interactions) < 3 THEN "insufficient-data"
        ELSE IF recentScore > olderScore THEN "improving"
        ELSE IF recentScore < olderScore THEN "declining"
        ELSE "stable"

getSkillProgressionPatterns(skills, userId, cutoffDate, fails) ==
    LET found == SelectSeq(skills,
                           LAMBDA s : s.userId = userId /\ s.lastPracticed >= cutoffDate)
        progressions == SliceFirst(SortDesc(found, LAMBDA s : s.interactionCount), SkillLimit)
        view(skill) ==
            [name |-> skill.skill,
             interactionCount |-> skill.interactionCount,
             lastPracticed |-> skill.lastPracticed,
             levelProgress |-> skill.levelProgress,
             recentChannels |-> Dedupe(Map(skill.recentInteractions, LAMBDA i : i.channel)),
             averageDifficulty |-> calculateAverageDifficulty(skill.recentInteractions),
             learningTrend |-> calculateLearningTrend(skill.recentInteractions)]
    IN  IF fails THEN <<>> ELSE Map(progressions, view)

\* Date.prototype.getHours and the long weekday name; hour 0 of the clock is the
\* midnight that starts a Monday
getHours(date) == date % 24

Weekdays == <<"Monday", "Tuesday", "Wednesday", "Thursday", "Friday", "Saturday", "Sunday">>

weekday(date) == Weekdays[((date \div 24) % 7) + 1]

\* Date.prototype.toDateString, the calendar date written as a day number
toDateString(date) == SubSeq(weekday(date), 1, 3) \o " day " \o ToString(date \div 24)

analyzeProductivityTrends(sessions) ==
    LET level(s) == IF toLowerCase(s.productivity) \in {"high", "medium", "low"}
                    THEN toLowerCase(s.productivity) ELSE "unknown"
        n(l) == Len(SelectSeq(sessions, LAMBDA s : level(s) = l))
    IN  [high |-> n("high"), medium |-> n("medium"), low |-> n("low"), unknown |-> n("unknown")]

\* the frequencies of analyzeTechnicalRequestFrequency, given each log's question type
RequestFrequency(types) ==
    [debugging |-> Count(types, "debugging"), howTo |-> Count(types, "how-to"),
     codeReview |-> Count(types, "code-review"), architecture |-> Count(types, "architecture"),
     optimization |-> Count(types, "optimization"),
     bestPractices |-> Count(types, "best-practices"),
     explanation |-> Count(types, "explanation")]

analyzeTechnicalRequestFrequency(logs) ==
    RequestFrequency(Map(logs, LAMBDA log : Analysis[log.userMessage].questionType))

analyzeChannelPreferences(logs) ==
    LET channelCounts == Tally(Map(logs, LAMBDA log : log.channel))
        sortedChannels == SortDesc(channelCounts, LAMBDA e : e.count)
    IN  [mostUsed |-> IF sortedChannels = <<>> THEN "general" ELSE sortedChannels[1].key,
         leastUsed |-> IF sortedChannels = <<>> THEN "admin"
                       ELSE sortedChannels[Len(sortedChannels)].key,
         channelCounts |-> channelCounts,
         totalChannelsUsed |-> Len(channelCounts)]

\* the afternoon asked first: a tie between morning and afternoon goes to the afternoon
categorizeAfternoonFirst(peakHours) ==
    LET morningHours == SelectSeq(peakHours, LAMBDA h : h >= 6 /\ h < 12)
        afternoonHours == SelectSeq(peakHours, LAMBDA h : h >= 12 /\ h < 18)
        eveningHours == SelectSeq(peakHours, LAMBDA h : h >= 18 /\ h < 24)
    IN  IF Len(afternoonHours) >= Len(morningHours) /\ Len(afternoonHours) >= Len(eveningHours)
        THEN "afternoon-person"
        ELSE IF Len(morningHours) >= Len(eveningHours) THEN "morning-person"
        ELSE "evening-person"

categorizeWorkingTime(peakHours) ==
    LET morningHours == SelectSeq(peakHours, LAMBDA h : h >= 6 /\ h < 12)
        afternoonHours == SelectSeq(peakHours, LAMBDA h : h >= 12 /\ h < 18)
        eveningHours == SelectSeq(peakHours, LAMBDA h : h >= 18 /\ h < 24)
    IN  IF Len(morningHours) >= Len(afternoonHours) /\ Len(morningHours) >= Len(eveningHours)
        THEN "morning-person"
        ELSE IF Len(eveningHours) >= Len(afternoonHours) THEN "evening-person"
        ELSE "afternoon-person"

\* hourCounts has integer keys, which Object.entries lists in ascending order
analyzeWorkingHourPatterns(logs, technicalSessions) ==
    LET hours == Map(logs, LAMBDA log : getHours(log.timestamp))
                 \o Map(technicalSessions, LAMBDA s : getHours(s.createdAt))
        count(h) == Len(SelectSeq(hours, LAMBDA x : x = h))
        hourCounts == SelectSeq([i \in 1..24 |-> [key |-> i - 1, count |-> count(i - 1)]],
                                LAMBDA e : e.count > 0)
        sortedHours == Map(SliceFirst(SortDesc(hourCounts, LAMBDA e : e.count), 3),
                           LAMBDA e : e.key)
    IN  [hourlyDistribution |-> hourCounts,
         peakHours |-> sortedHours,
         preferredWorkingTime |-> categorizeWorkingTime(sortedHours)]

\* the result of analyzeTaskBreakdownPatterns, given its two filtered lists
TaskBreakdown(planningLogs, taskBreakdownIndicators) ==
    [totalPlanningInteractions |-> Len(planningLogs),
     taskBreakdownFrequency |-> Len(taskBreakdownIndicators),
     \* indicators > planning * 0.3
     planningPreference |->
         IF 10 * Len(taskBreakdownIndicators) > 3 * Len(planningLogs)
         THEN "detailed" ELSE "high-level"]

analyzeTaskBreakdownPatterns(logs) ==
    TaskBreakdown(SelectSeq(logs, LAMBDA log : log.channel = "planning"),
                  SelectSeq(logs, LAMBDA log : /\ log.channel = "planning"
                                               /\ Analysis[log.userMessage].taskBreakdown))

\* dayPatterns: one entry per weekday, in the order of first appearance
analyzeTechnicalWeeklyPatterns(technicalSessions, logs) ==
    LET days == Dedupe(Map(technicalSessions, LAMBDA s : weekday(s.createdAt))
                       \o Map(logs, LAMBDA log : weekday(log.timestamp)))
        sessionsOn(day) == SelectSeq(technicalSessions, LAMBDA s : weekday(s.createdAt) = day)
        logsOn(day) == SelectSeq(logs, LAMBDA log : weekday(log.timestamp) = day)
        pattern(day) ==
            [key |-> day,
             technicalSessions |-> Len(sessionsOn(day)),
             discordActivity |-> Len(logsOn(day)),
             codingActivity |-> Len(SelectSeq(logsOn(day), LAMBDA log :
                 log.channel = "coding" \/ log.technicalContext.codeBlocks.hasCode)),
             projectActivity |-> Len(SelectSeq(logsOn(day), LAMBDA log :
                 log.channel = "projects" \/ log.technicalContext.isProjectRelated))]
    IN  Map(days, pattern)

analyzeTechnicalWorkflowPatterns(allLogs, sessions, userId, cutoffDate, fails) ==
    LET logs == SelectSeq(allLogs,
                          LAMBDA d : d.userId = userId /\ d.timestamp >= cutoffDate)
        technicalSessions == SelectSeq(sessions,
                                       LAMBDA s : s.userId = userId /\ s.createdAt >= cutoffDate)
    IN  IF fails THEN EmptyObject
        ELSE [productivityTrends |-> analyzeProductivityTrends(technicalSessions),
              requestFrequency |-> analyzeTechnicalRequestFrequency(logs),
              channelPreferences |-> analyzeChannelPreferences(logs),
              workingHours |-> analyzeWorkingHourPatterns(logs, technicalSessions),
              taskBreakdownPatterns |-> analyzeTaskBreakdownPatterns(logs),
              weeklyPatterns |-> analyzeTechnicalWeeklyPatterns(technicalSessions, logs)]

Has(obj, field) == field \in DOMAIN obj

describeTechnicalWorkingPatterns(workflowPatterns) ==
    LET sortedDays == IF Has(workflowPatterns, "weeklyPatterns")
                      THEN SortDesc(workflowPatterns.weeklyPatterns,
                                    LAMBDA d : d.technicalSessions + d.discordActivity)
                      ELSE <<>>
        descriptions ==
            (IF Has(workflowPatterns, "workingHours")
             THEN <<workflowPatterns.workingHours.preferredWorkingTime>> ELSE <<>>)
            \o (IF Has(workflowPatterns, "taskBreakdownPatterns")
                THEN <<workflowPatterns.taskBreakdownPatterns.planningPreference
                       \o " planning style">>
                ELSE <<>>)
            \o (IF sortedDays # <<>>
                THEN <<"most active on " \o sortedDays[1].key \o "s">> ELSE <<>>)
    IN  IF descriptions = <<>> THEN "No clear working patterns" ELSE join(descriptions, ", ")

\* Math.round(100 * part / total) for total > 0
RoundPercent(part, total) == (200 * part + total) \div (2 * total)

\* the literal of the last line of generateTechnicalContextSummary
Fallback == "No technical patterns detected yet."

generateTechnicalContextSummary(technicalInsights, discordPatterns, projectContextList, skillPatterns, workflowPatterns) ==
    LET header == "TECHNICAL CONTEXT:\n\n"
        session ==
            IF Len(technicalInsights) > 0
            THEN "Latest work session (" \o toDateString(technicalInsights[1].date)
                 \o "): Focus area was " \o technicalInsights[1].focusArea \o ". "
                 \o "Technologies: " \o join(technicalInsights[1].technologies, ", ")
                 \o ". Productivity: " \o technicalInsights[1].productivity \o "\n\n"
            ELSE ""
        langs ==
            IF Has(discordPatterns, "preferredLanguages")
               /\ Len(discordPatterns.preferredLanguages) > 0
            THEN "PREFERRED LANGUAGES: " \o join(discordPatterns.preferredLanguages, ", ") \o "\n"
            ELSE ""
        fws ==
            IF Has(discordPatterns, "preferredFrameworks")
               /\ Len(discordPatterns.preferredFrameworks) > 0
            THEN "PREFERRED FRAMEWORKS: " \o join(discordPatterns.preferredFrameworks, ", ")
                 \o "\n\n"
            ELSE ""
        projectLine(project) ==
            "- " \o project.name \o ": " \o join(project.technologies, ", ") \o " ("
            \o ToString(project.interactionCount) \o " interactions)\n"
        projects ==
            IF Len(projectContextList) > 0
            THEN "ACTIVE PROJECTS:\n"
                 \o join(Map(SliceFirst(projectContextList, 3), projectLine), "") \o "\n"
            ELSE ""
        topSkills == SliceFirst(skillPatterns, 3)
        improvingSkills == SelectSeq(topSkills, LAMBDA s : s.learningTrend = "improving")
        skills ==
            IF Len(skillPatterns) > 0
            THEN "SKILL DEVELOPMENT FOCUS: " \o join(Map(topSkills, LAMBDA s : s.name), ", ")
                 \o "\n"
                 \o (IF Len(improvingSkills) > 0
                     THEN "Currently improving: "
                          \o join(Map(improvingSkills, LAMBDA s : s.name), ", ") \o "\n"
                     ELSE "")
                 \o "\n"
            ELSE ""
        dist == discordPatterns.complexityDistribution
        totalQuestions == dist.simple + dist.medium + dist.complex
        complexity ==
            IF Has(discordPatterns, "complexityDistribution")
               /\ totalQuestions > 0
               /\ 10 * dist.complex > 4 * totalQuestions
            THEN "COMPLEXITY PREFERENCE: Tends to work on complex problems ("
                 \o ToString(RoundPercent(dist.complex, totalQuestions))
                 \o "% complex questions)\n\n"
            ELSE ""
        topQuestionTypes ==
            IF Has(discordPatterns, "questionTypes")
            THEN Map(SliceFirst(SortDesc(discordPatterns.questionTypes, LAMBDA e : e.count), 2),
                     LAMBDA e : e.key)
            ELSE <<>>
        questions ==
            IF Len(topQuestionTypes) > 0
            THEN "QUESTION PATTERNS: Often asks about " \o join(topQuestionTypes, " and ")
                 \o "\n\n"
            ELSE ""
        channel ==
            IF Has(discordPatterns, "mostActiveChannel")
               /\ discordPatterns.mostActiveChannel # "general"
            THEN "WORKFLOW PREFERENCE: Most active in #" \o discordPatterns.mostActiveChannel
                 \o " channel\n\n"
            ELSE ""
        working ==
            IF Has(workflowPatterns, "workingHours")
            THEN "WORKING PATTERNS: " \o describeTechnicalWorkingPatterns(workflowPatterns)
                 \o "\n\n"
            ELSE ""
        summary == header \o session \o langs \o fws \o projects \o skills \o complexity
                   \o questions \o channel \o working
    IN  IF trim(summary) = "" THEN Fallback ELSE trim(summary)

\* the object getRelevantContext returns from its try block
RelevantContext(technicalInsights, discordPatterns, projectContextList, skillPatterns, workflowPatterns) ==
    [technicalInsights |-> technicalInsights,
     discordPatterns |-> discordPatterns,
     projectContexts |-> projectContextList,
     skillPatterns |-> skillPatterns,
     workflowPatterns |-> workflowPatterns,
     summary |-> generateTechnicalContextSummary(technicalInsights, discordPatterns,
                     projectContextList, skillPatterns, workflowPatterns)]

\* the try block of getRelevantContext over the four collections given; failing
\* names the helpers whose find() rejects
getRelevantContextOver(logs, projects, skills, sessions, userId, lookbackDays, failing) ==
    RelevantContext(
        getRecentTechnicalInsights(sessions, userId, CutoffDate(lookbackDays),
                                   "technicalInsights" \in failing),
        getTechnicalDiscordPatterns(logs, userId, CutoffDate(lookbackDays),
                                    "discordPatterns" \in failing),
        getRecentProjectContexts(projects, userId, CutoffDate(lookbackDays),
                                 "projectContexts" \in failing),
        getSkillProgressionPatterns(skills, userId, CutoffDate(lookbackDays),
                                    "skillPatterns" \in failing),
        analyzeTechnicalWorkflowPatterns(logs, sessions, userId, CutoffDate(lookbackDays),
                                         "workflowPatterns" \in failing))

\* the try block of getRelevantContext on the service's collections
getRelevantContextValue(userId, lookbackDays, failing) ==
    getRelevantContextOver(discordLogs, projectContexts, skillProgressions, technicalLogs,
                           userId, lookbackDays, failing)

\* the helpers of the read path in call order, each with the collection it queries first
Queries ==
    << <<"technicalInsights", "technical_sessions">>,
       <<"discordPatterns", "discord_interactions">>,
       <<"projectContexts", "project_contexts">>,
       <<"skillPatterns", "skill_progressions">>,
       <<"workflowPatterns", "discord_interactions">> >>

\* getRelevantContext({userId, channelType, currentMessage, lookbackDays}) on the message
\* handler's instance; failing names the helpers whose find() the store rejects
GetRelevantContext(userId, lookbackDays, f) ==
    LET init == initialize("handler", f.init)
    IN  /\ initialized' = init.initialized
        /\ collections' = init.collections
        /\ IF init.threw
           THEN /\ storeCalls' = init.calls
                /\ ret' = [op |-> "getRelevantContext", outcome |-> "threw",
                           userId |-> userId, message |-> "", value |-> EmptyObject]
           ELSE /\ storeCalls' = init.calls
                       \o Map(Queries, LAMBDA q : Call("find", q[2], q[1], q[1] \notin f.queries))
                /\ ret' = [op |-> "getRelevantContext", outcome |-> "returned",
                           userId |-> userId, message |-> "",
                           value |-> getRelevantContextValue(userId, lookbackDays, f.queries)]
        /\ UNCHANGED <<serviceVars, discordLogs, projectContexts, skillProgressions, technicalLogs, now,
                       pendingConfirmations>>

\* getStats() as the admin commands call it: it initializes the admin service's instance
GetStats(failAt) ==
    LET init == initialize("admin", failAt)
    IN  /\ initialized' = init.initialized
        /\ collections' = init.collections
        /\ storeCalls' = init.calls
        /\ ret' = [op |-> "getStats", outcome |-> IF init.threw THEN "threw" ELSE "returned",
                   userId |-> "", message |-> "", value |-> EmptyObject]
        /\ UNCHANGED <<serviceVars, discordLogs, projectContexts, skillProgressions, technicalLogs, now,
                       pendingConfirmations>>

-----------------------------------------------------------------------------
(* AdminCommandService: the memory reset and its confirmation *)

\* a call suspended at an await: the number that tells it from the other calls in
\* flight, the operation, its key, the await it is at and the document it carries
Frame(call, op, key, step, config) ==
    [call |-> call, op |-> op, key |-> key, step |-> step, config |-> config]

\* the number of the next call: the smallest one no call in flight has
NewCall == CHOOSE n \in 1..(Cardinality(inFlight) + 1) : \A f \in inFlight : f.call # n

\* the frame of a call at its next await
Suspended(frame, step, config) == Frame(frame.call, frame.op, frame.key, step, config)

\* handleResetMemory: the prompt is sent and the confirmation is registered
HandleResetMemory(id, admin, channelType) ==
    /\ Cardinality(pendingConfirmations) < MaxPending
    /\ \A c \in pendingConfirmations : c.id # id
    /\ \A f \in inFlight : f.op = "confirm" => f.key # id
    /\ pendingConfirmations' = pendingConfirmations \cup
           {[id |-> id, type |-> "resetmemory", channelType |-> channelType, userId |-> admin]}
    /\ storeCalls' = <<>>
    /\ ret' = [op |-> "handleResetMemory", outcome |-> "returned", userId |-> admin, message |-> "",
               value |-> EmptyObject]
    /\ UNCHANGED <<serviceVars, initialized, collections, discordLogs, projectContexts, skillProgressions,
                   technicalLogs, now>>

\* the setTimeout callback of handleResetMemory
ExpireConfirmation(id) ==
    /\ \E c \in pendingConfirmations : c.id = id
    /\ pendingConfirmations' = {c \in pendingConfirmations : c.id # id}
    /\ UNCHANGED <<serviceVars, initialized, collections, discordLogs, projectContexts, skillProgressions,
                   technicalLogs, now, storeCalls, ret>>

\* deleteMany(filter) on a collection
DeleteMany(docs, Filter(_)) == SelectSeq(docs, LAMBDA d : ~Filter(d))

\* executeResetMemory(interaction, confirmation); failAt is the deleteMany the store
\* rejects: "none", "discordLogs" or "projectContexts". With the collection handles
\* still null the first deleteMany raises a TypeError, caught like a rejection.
executeResetMemory(confirmation, failAt) ==
    LET noHandles == ~collections["admin"]
        firstFails == noHandles \/ failAt = "discordLogs"
        secondFails == failAt = "projectContexts"
        logsAfter == DeleteMany(discordLogs, LAMBDA d : d.channel = confirmation.channelType)
        projectsAfter == DeleteMany(projectContexts, LAMBDA d : TRUE)
    IN  [discordLogs |-> IF firstFails THEN discordLogs ELSE logsAfter,
         projectContexts |-> IF firstFails \/ secondFails THEN projectContexts
                             ELSE projectsAfter,
         calls |-> IF noHandles THEN <<>>
                   ELSE IF firstFails
                   THEN <<Call("deleteMany", "discord_interactions", confirmation.channelType, FALSE)>>
                   ELSE <<Call("deleteMany", "discord_interactions", confirmation.channelType, TRUE),
                          Call("deleteMany", "project_contexts", "", ~secondFails)>>,
         title |-> IF firstFails \/ secondFails THEN "Memory Reset Error"
                   ELSE "Memory Reset Complete"]

\* handleButtonInteraction with customId confirm_<id>, pressed by user
ConfirmButton(id, user, failAt) ==
    IF \A c \in pendingConfirmations : c.id # id
    THEN /\ ret' = [op |-> "confirm", outcome |-> "returned", userId |-> user, message |-> "",
                    value |-> [title |-> "Confirmation Expired"]]
         /\ storeCalls' = <<>>
         /\ UNCHANGED <<serviceVars, initialized, collections, discordLogs, projectContexts,
                        skillProgressions, technicalLogs, now, pendingConfirmations>>
    ELSE LET confirmation == CHOOSE c \in pendingConfirmations : c.id = id
             done == executeResetMemory(confirmation, failAt)
         IN  IF confirmation.userId # user
             THEN /\ ret' = [op |-> "confirm", outcome |-> "returned", userId |-> user, message |-> "",
                             value |-> [title |-> "Access Denied"]]
                  /\ storeCalls' = <<>>
                  /\ UNCHANGED <<serviceVars, initialized, collections, discordLogs, projectContexts,
                                 skillProgressions, technicalLogs, now, pendingConfirmations>>
             ELSE /\ discordLogs' = done.discordLogs
                  /\ projectContexts' = done.projectContexts
                  /\ storeCalls' = done.calls
                  /\ pendingConfirmations' = pendingConfirmations \ {confirmation}
                  /\ ret' = [op |-> "confirm", outcome |-> "returned", userId |-> user, message |-> "",
                             value |-> [title |-> done.title,
                                        channelType |-> confirmation.channelType]]
                  /\ UNCHANGED <<serviceVars, initialized, collections, skillProgressions, technicalLogs, now>>

\* handleButtonInteraction with customId cancel_<id>
CancelButton(id, user) ==
    /\ pendingConfirmations' = {c \in pendingConfirmations : c.id # id}
    /\ storeCalls' = <<>>
    /\ ret' = [op |-> "cancel", outcome |-> "returned", userId |-> user, message |-> "",
               value |-> [title |-> "Operation Cancelled"]]
    /\ UNCHANGED <<serviceVars, initialized, collections, discordLogs, projectContexts, skillProgressions,
                   technicalLogs, now>>

-----------------------------------------------------------------------------
(* ChannelConfigService: getChannelConfig and updateChannelConfig over the collection
   channel_configurations and the cache, each call split at its await of the store *)

\* this.cacheExpiry = 5 * 60 * 1000, in minutes
CacheExpiry == 5

ConfigChannels == {"coding", "general"}
ConfigModels == {"gpt-4", "gpt-3.5-turbo"}

\* the documents createDefaultConfigurations inserts, as far as the calls here read them
createDefaultConfigurations ==
    [c \in ConfigChannels |->
        [channelType |-> c, model |-> IF c = "general" THEN "gpt-3.5-turbo" ELSE "gpt-4"]]

\* the variables no call of ChannelConfigService writes
memoryVars == <<initialized, collections, discordLogs, projectContexts, skillProgressions,
                technicalLogs, now, pendingConfirmations, storeCalls>>

\* the service is initialized and the collection holds the default configurations;
\* Date.now() is far beyond the cache expiry when the process starts
InitService ==
    /\ inFlight = {}
    /\ channelConfigs = createDefaultConfigurations
    /\ configCache = {}
    /\ lastCacheUpdate = 0
    /\ dateNow = CacheExpiry

isCacheValid == dateNow - lastCacheUpdate < CacheExpiry

\* getChannelConfig(channelType) up to its first await of the store: a valid cache that
\* has the key answers at once; cachedAt (when the entry was put in the cache) is kept
\* with each entry, and the time of the answer (at) with each answer, for the properties:
\* neither is program state
GetChannelConfig(channelType) ==
    IF isCacheValid /\ \E e \in configCache : e.key = channelType
    THEN /\ \E e \in {x \in configCache : x.key = channelType} :
                ret' = [op |-> "getChannelConfig", outcome |-> "returned", userId |-> "",
                        message |-> channelType,
                        value |-> [config |-> e.config, fromCache |-> TRUE,
                                   cachedAt |-> e.cachedAt, at |-> dateNow]]
         /\ UNCHANGED <<memoryVars, inFlight, channelConfigs, configCache, lastCacheUpdate,
                        dateNow>>
    ELSE /\ Cardinality(inFlight) < MaxInFlight
         /\ inFlight' = inFlight \cup
                {Frame(NewCall, "getChannelConfig", channelType, "findOne", EmptyObject)}
         /\ UNCHANGED <<memoryVars, ret, channelConfigs, configCache, lastCacheUpdate, dateNow>>

\* the store answers the findOne of a getChannelConfig
FindOneServed(frame) ==
    /\ frame.op = "getChannelConfig" /\ frame.step = "findOne"
    /\ inFlight' = (inFlight \ {frame}) \cup
           {Suspended(frame, "resume", channelConfigs[frame.key])}
    /\ UNCHANGED <<memoryVars, ret, channelConfigs, configCache, lastCacheUpdate, dateNow>>

\* getChannelConfig after its await: the document found goes into the cache
GetChannelConfigResume(frame) ==
    /\ frame.op = "getChannelConfig" /\ frame.step = "resume"
    /\ inFlight' = inFlight \ {frame}
    /\ configCache' = {e \in configCache : e.key # frame.key} \cup
           {[key |-> frame.key, config |-> frame.config, cachedAt |-> dateNow]}
    /\ lastCacheUpdate' = dateNow
    /\ ret' = [op |-> "getChannelConfig", outcome |-> "returned", userId |-> "",
               message |-> frame.key,
               value |-> [config |-> frame.config, fromCache |-> FALSE,
                          cachedAt |-> dateNow, at |-> dateNow]]
    /\ UNCHANGED <<memoryVars, channelConfigs, dateNow>>

\* updateChannelConfig(channelType, {'llmConfig.model': model}) up to its await of
\* updateOne
UpdateChannelConfig(channelType, model) ==
    /\ Cardinality(inFlight) < MaxInFlight
    /\ inFlight' = inFlight \cup
           {Frame(NewCall, "updateChannelConfig", channelType, "updateOne",
                  [channelType |-> channelType, model |-> model])}
    /\ UNCHANGED <<memoryVars, ret, channelConfigs, configCache, lastCacheUpdate, dateNow>>

\* the store applies the updateOne; updatedAt is set anew, so modifiedCount is 1
UpdateOneServed(frame) ==
    /\ frame.op = "updateChannelConfig" /\ frame.step = "updateOne"
    /\ channelConfigs' = [channelConfigs EXCEPT ![frame.key] = frame.config]
    /\ inFlight' = (inFlight \ {frame}) \cup
           {Suspended(frame, "resume", frame.config)}
    /\ UNCHANGED <<memoryVars, ret, configCache, lastCacheUpdate, dateNow>>

\* updateChannelConfig after its await: clearCache() and return true
UpdateChannelConfigResume(frame) ==
    /\ frame.op = "updateChannelConfig" /\ frame.step = "resume"
    /\ inFlight' = inFlight \ {frame}
    /\ configCache' = {}
    /\ lastCacheUpdate' = 0
    /\ ret' = [op |-> "updateChannelConfig", outcome |-> "returned", userId |-> "",
               message |-> frame.key, value |-> [success |-> TRUE]]
    /\ UNCHANGED <<memoryVars, channelConfigs, dateNow>>

-----------------------------------------------------------------------------
(* The inputs the model draws from *)

Instances == {"handler", "admin"}
Users == {"u1", "u2"}
Admins == {"a1"}
Channels == {"coding", "general"}
LookbackDays == {1, 14}
InitFailures == {"none", "connect", "createIndex"}
ResetFailures == {"none", "discordLogs", "projectContexts"}
QueryNames == {q[1] : q \in Range(Queries)}

\* technical_sessions is filled by another program: what it may hold
SessionSets ==
    {<<>>,
     <<[userId |-> "u1", createdAt |-> 0, focusArea |-> "API design",
        technologies |-> <<"docker", "redis">>, productivity |-> "High"]>>}

\* the interaction messageHandler.handleMessage passes to storeInteraction
Interaction(userId, channel, userMessage) ==
    [userId |-> userId, channel |-> channel, userMessage |-> userMessage,
     botResponse |-> BotResponse, timestamp |-> now]

NoStoreFailure == [init |-> "none", insert |-> FALSE, project |-> FALSE, skills |-> {}]

\* Where the store may reject the operations of one storeInteraction call. Only the
\* operations the call gets to are listed: nothing after a failed initialize or a failed
\* insert, no project update without a project name.
StoreFailuresOf(analysis) ==
    {[NoStoreFailure EXCEPT !.init = i] :
        i \in IF initialized["handler"] THEN {} ELSE InitFailures \ {"none"}}
    \cup {[NoStoreFailure EXCEPT !.insert = TRUE]}
    \cup {[NoStoreFailure EXCEPT !.project = p, !.skills = k] :
            p \in IF HasProject(analysis.projectMention) THEN BOOLEAN ELSE {FALSE},
            k \in SUBSET (1..Len(analysis.detectedSkills))}

StoreFailures(interaction) == StoreFailuresOf(Analysis[interaction.userMessage])

\* where the store may reject the operations of one getRelevantContext call
ReadFailures ==
    {[init |-> i, queries |-> {}] :
        i \in IF initialized["handler"] THEN {} ELSE InitFailures \ {"none"}}
    \cup {[init |-> "none", queries |-> q] : q \in SUBSET QueryNames}

NoReadFailure == [init |-> "none", queries |-> {}]

Init ==
    /\ initialized = [i \in Instances |-> FALSE]
    /\ collections = [i \in Instances |-> FALSE]
    /\ discordLogs = <<>>
    /\ projectContexts = <<>>
    /\ skillProgressions = <<>>
    /\ technicalLogs \in SessionSets
    /\ now = 0
    /\ pendingConfirmations = {}
    /\ storeCalls = <<>>
    /\ ret = [op |-> "none", outcome |-> "returned", userId |-> "", message |-> "", value |-> EmptyObject]
    /\ InitService

\* the largest of a set of naturals, 0 for the empty set
MaxOf(S) == IF S = {} THEN 0 ELSE CHOOSE x \in S : \A y \in S : y <= x

\* how much one part of the store has taken in: the longest of the log, any project's
\* interactions and any skill's interaction count
StoreLoad ==
    MaxOf({Len(discordLogs)}
          \cup {Len(p.interactions) : p \in Range(projectContexts)}
          \cup {s.interactionCount : s \in Range(skillProgressions)})

-----------------------------------------------------------------------------
(* Spec: the write path and the read path of one MemoryService, the store rejecting
   any of their operations *)

Store ==
    \E u \in Users, m \in Messages :
        \E f \in StoreFailures(Interaction(u, "coding", m)) :
            /\ Len(discordLogs) < MaxFaultLogs
            /\ StoreInteraction(Interaction(u, "coding", m), f)

Read ==
    \E u \in Users, f \in ReadFailures : GetRelevantContext(u, 14, f)

Next == Store \/ Read

Spec == Init /\ [][Next]_vars

-----------------------------------------------------------------------------
(* SpecAdmin: both services over the shared store, no operation rejected on the
   message handler's side *)

StoreOk ==
    \E u \in Users, c \in Channels, m \in AdminMessages :
        /\ StoreLoad < MaxLogs
        /\ StoreInteraction(Interaction(u, c, m), NoStoreFailure)

ReadOk ==
    \E u \in Users : GetRelevantContext(u, 14, NoReadFailure)

Stats == \E failAt \in InitFailures : GetStats(failAt)

ResetCommand ==
    \E id \in 1..MaxPending, a \in Admins, c \in Channels : HandleResetMemory(id, a, c)

Expire == \E id \in 1..MaxPending : ExpireConfirmation(id)

Confirm ==
    \E id \in 1..MaxPending, a \in Admins, failAt \in ResetFailures : ConfirmButton(id, a, failAt)

Cancel == \E id \in 1..MaxPending, a \in Admins : CancelButton(id, a)

NextAdmin == StoreOk \/ ReadOk \/ Stats \/ ResetCommand \/ Expire \/ Confirm \/ Cancel

\* technical_sessions stays empty here: the admin service never reads it
InitAdmin == Init /\ technicalLogs = <<>>

SpecAdmin == InitAdmin /\ [][NextAdmin]_vars

-----------------------------------------------------------------------------
(* SpecRing: one user practising one skill, at two difficulties, more often than the
   recent interactions of a skill hold *)

RingStore ==
    \E m \in RingMessages :
        /\ Len(discordLogs) < MaxRing
        /\ StoreInteraction(Interaction("u1", "coding", m), NoStoreFailure)

RingRead == GetRelevantContext("u1", 14, NoReadFailure)

NextRing == RingStore \/ RingRead

SpecRing == Init /\ [][NextRing]_vars

-----------------------------------------------------------------------------
(* SpecBulk: one user writing more messages than the pattern query reads, first in
   #coding and then in #general *)

BulkStore ==
    \E c \in Channels, m \in BulkMessages :
        /\ Len(discordLogs) < MaxBulk
        /\ c = "coding" => \A i \in 1..Len(discordLogs) : discordLogs[i].channel = "coding"
        /\ c = "general" =>
               Len(SelectSeq(discordLogs, LAMBDA d : d.channel = "general")) < MaxBulkGeneral
        /\ StoreInteraction(Interaction("u1", c, m), NoStoreFailure)

BulkRead == GetRelevantContext("u1", 14, NoReadFailure)

NextBulk == BulkStore \/ BulkRead

SpecBulk == Init /\ [][NextBulk]_vars

-----------------------------------------------------------------------------
(* The claims about the write path and its failures (under Spec) *)

\* the store calls the last call issued on collection coll with operation op
CallsTo(op, coll) == SelectSeq(storeCalls, LAMBDA c : c.op = op /\ c.coll = coll)

\* C1: storeInteraction returns normally to its caller for every persistence failure,
\* a failure to connect or to initialize included: no exception reaches the caller.
C1_StoreInteractionNeverThrows ==
    ret.op = "storeInteraction" => ret.outcome = "returned"

\* C2: within one storeInteraction call the insert, the project-context upsert and the
\* skill-progression upserts are independent: once the call gets to its insert, the
\* upsert of the project the message names and of every skill it shows are attempted,
\* whether or not the insert (or another upsert) failed.
C2_UpsertsAttemptedWhateverFails ==
    (ret.op = "storeInteraction" /\ CallsTo("insertOne", "discord_interactions") # <<>>)
        => /\ Len(CallsTo("updateOne", "project_contexts"))
                = IF HasProject(Analysis[ret.message].projectMention) THEN 1 ELSE 0
           /\ Len(CallsTo("updateOne", "skill_progressions"))
                = Len(Analysis[ret.message].detectedSkills)

\* C3: getRelevantContext never raises to its caller, whatever store operation fails
\* (a failure to connect during initialize included): it returns an object with a
\* non-empty summary.
C3_GetRelevantContextAlwaysReturnsSummary ==
    ret.op = "getRelevantContext"
        => /\ ret.outcome = "returned"
           /\ Has(ret.value, "summary")
           /\ ret.value.summary # ""

\* the user has no record in any of the four collections
NothingStoredFor(userId) ==
    /\ \A d \in Range(discordLogs) : d.userId # userId
    /\ \A d \in Range(projectContexts) : d.userId # userId
    /\ \A d \in Range(skillProgressions) : d.userId # userId
    /\ \A d \in Range(technicalLogs) : d.userId # userId

\* C9: when no summary section qualifies (nothing is stored for the user), the compiled
\* summary is exactly the fallback literal "No technical patterns detected yet.".
C9_FallbackWhenNothingQualifies ==
    (ret.op = "getRelevantContext" /\ ret.outcome = "returned" /\ NothingStoredFor(ret.userId))
        => ret.value.summary = "No technical patterns detected yet."

\* the find() of the named helper was rejected in the last call
QueryFailed(name) ==
    \E i \in 1..Len(storeCalls) :
        storeCalls[i].op = "find" /\ storeCalls[i].key = name /\ ~storeCalls[i].ok

\* C10: when the query of the pattern aggregation fails, the aggregate returned is an
\* empty structure with neutral fields (zero counts, empty rankings, mostActiveChannel
\* general), and the summary compiled from it is the fallback text.
C10_FailedQueryGivesNeutralAggregate ==
    (ret.op = "getRelevantContext" /\ ret.outcome = "returned" /\ QueryFailed("discordPatterns"))
        => /\ Has(ret.value.discordPatterns, "mostActiveChannel")
           /\ ret.value.discordPatterns.mostActiveChannel = "general"
           /\ ret.value.discordPatterns.totalInteractions = 0
           /\ ret.value.discordPatterns.preferredLanguages = <<>>
           /\ ret.value.discordPatterns.preferredFrameworks = <<>>
           /\ ret.value.summary = "No technical patterns detected yet."

-----------------------------------------------------------------------------
(* The claims about the recent interactions of a skill (under SpecRing) and about the
   channel counts (under SpecBulk) *)

\* what identifies an entry of recentInteractions
Entry(e) == <<e.timestamp, e.channel, e.difficulty>>

\* the entries pushed so far to a skill progression, oldest first: one for each time
\* its skill shows in a stored interaction of its user
Pushed(s) ==
    Flatten(Map(SelectSeq(discordLogs, LAMBDA d : d.userId = s.userId),
                LAMBDA d : Map(SelectSeq(Analysis[d.userMessage].detectedSkills,
                                         LAMBDA k : k.name = s.skill),
                               LAMBDA k : <<d.timestamp, d.channel, k.difficulty>>)))

\* C4: after any sequence of storeInteraction calls every skill progression's
\* recentInteractions holds at most 10 entries, and they are the most recently pushed
\* ones in push order: the 11th push evicts the oldest.
C4_RecentInteractionsFifo ==
    \A i \in 1..Len(skillProgressions) :
        \E ring \in {skillProgressions[i].recentInteractions},
           pushed \in {Pushed(skillProgressions[i])} :
            /\ Len(ring) <= 10
            /\ Len(ring) = Min(Len(pushed), 10)
            /\ \A k \in 1..Len(ring) : Entry(ring[k]) = pushed[Len(pushed) - Len(ring) + k]

\* an 11th entry was pushed, and the evicted one differs from the one now oldest
C4_EleventhPushEvicted ==
    \E i \in 1..Len(skillProgressions) :
        /\ Len(Pushed(skillProgressions[i])) = 11
        /\ Len(skillProgressions[i].recentInteractions) = 10
        /\ Pushed(skillProgressions[i])[1] # Pushed(skillProgressions[i])[2]

SumCounts(table) == SumSeq(Map(table, LAMBDA e : e.count))

\* the interactions stored for a user
StoredFor(userId) == Len(SelectSeq(discordLogs, LAMBDA d : d.userId = userId))

\* the last call aggregated the user's patterns, all stored timestamps in its window
Aggregated ==
    /\ ret.op = "getRelevantContext"
    /\ ret.outcome = "returned"
    /\ Has(ret.value.discordPatterns, "channelBreakdown")
    /\ \A d \in Range(discordLogs) : d.timestamp >= CutoffDate(14)

\* C5 as stated: for every N, after N interactions are stored for a user and the
\* patterns are aggregated over a window that covers them all, the channel counts of
\* channelBreakdown sum to exactly N.
C5_ChannelCountsSumToStored ==
    Aggregated => SumCounts(ret.value.discordPatterns.channelBreakdown) = StoredFor(ret.userId)

\* C5 amended: the channel counts sum to N up to the 50 records the query reads, that
\* is to min(N, 50).
C5_ChannelCountsSumToStoredUpTo50 ==
    Aggregated => SumCounts(ret.value.discordPatterns.channelBreakdown)
                      = Min(StoredFor(ret.userId), 50)

\* more interactions than the query reads were stored, in two channels, and aggregated
C5_AggregatedBeyondLimit ==
    /\ Aggregated
    /\ StoredFor(ret.userId) = 51
    /\ Len(ret.value.discordPatterns.channelBreakdown) = 2

-----------------------------------------------------------------------------
(* The claims about users, the memory reset and the stored records (under SpecAdmin) *)

OnlyOf(userId, docs) == SelectSeq(docs, LAMBDA d : d.userId = userId)

\* what getRelevantContext returns for a user over the collections given
ContextOver(logs, projects, skills, userId) ==
    getRelevantContextOver(logs, projects, skills, technicalLogs, userId, 14, {})

\* this step is a storeInteraction call of the user that stored a record
StoredBy(userId) ==
    /\ ret'.op = "storeInteraction"
    /\ ret'.userId = userId
    /\ Len(discordLogs') = Len(discordLogs) + 1

\* C6: memory is partitioned by user. A storeInteraction call of user B leaves the
\* interaction records, project contexts and skill progressions of every other user A,
\* and the result of getRelevantContext for A, as they were; and it changes B's own
\* project contexts and skill progressions as it would with only B's records stored.
C6_UsersDoNotInterfere ==
    [][\A b \in Users :
          StoredBy(b) =>
              /\ \A a \in Users \ {b} :
                    /\ OnlyOf(a, discordLogs') = OnlyOf(a, discordLogs)
                    /\ OnlyOf(a, projectContexts') = OnlyOf(a, projectContexts)
                    /\ OnlyOf(a, skillProgressions') = OnlyOf(a, skillProgressions)
                    /\ ContextOver(discordLogs', projectContexts', skillProgressions', a)
                         = ContextOver(discordLogs, projectContexts, skillProgressions, a)
              /\ OnlyOf(b, projectContexts')
                    = updateProjectContext(OnlyOf(b, projectContexts),
                                           discordLogs'[Len(discordLogs')], FALSE).docs
              /\ OnlyOf(b, skillProgressions')
                    = updateSkillProgression(OnlyOf(b, skillProgressions),
                                             discordLogs'[Len(discordLogs')], {}).docs]_vars

\* u2 has just stored an interaction with the project and the skills u1 has on record
C6_BothUsersShareNames ==
    /\ ret.op = "storeInteraction"
    /\ ret.userId = "u2"
    /\ \E p \in Range(projectContexts), q \in Range(projectContexts) :
           p.userId = "u1" /\ q.userId = "u2" /\ p.projectName = q.projectName
    /\ \E p \in Range(skillProgressions), q \in Range(skillProgressions) :
           p.userId = "u1" /\ q.userId = "u2" /\ p.skill = q.skill

\* this step is a confirmed memory reset
ResetConfirmed ==
    /\ ret'.op = "confirm"
    /\ pendingConfirmations' # pendingConfirmations

\* this step is a confirmed memory reset that ran to its end
ResetDone == ResetConfirmed /\ ret'.value.title = "Memory Reset Complete"

\* C7: a confirmed memory reset deletes only the records that match its channel:
\* interaction records of other channels, project contexts of other channels and all
\* skill progressions are left unchanged.
C7_ResetRemovesOnlyItsChannel ==
    [][ResetDone =>
          /\ SelectSeq(discordLogs', LAMBDA d : d.channel # ret'.value.channelType)
                = SelectSeq(discordLogs, LAMBDA d : d.channel # ret'.value.channelType)
          /\ SelectSeq(projectContexts', LAMBDA d : d.channel # ret'.value.channelType)
                = SelectSeq(projectContexts, LAMBDA d : d.channel # ret'.value.channelType)
          /\ skillProgressions' = skillProgressions]_vars

IsPrefix(a, b) == Len(a) <= Len(b) /\ SubSeq(b, 1, Len(a)) = a

\* C8: an interaction record is immutable once written. Every step keeps the stored
\* records as they are, in place, except a confirmed memory reset; and a
\* getRelevantContext call leaves the three stores unchanged.
C8_InteractionRecordsImmutable ==
    [][/\ IsPrefix(discordLogs, discordLogs') \/ ResetConfirmed
       /\ ret'.op = "getRelevantContext"
            => UNCHANGED <<serviceVars, discordLogs, projectContexts, skillProgressions>>]_vars

\* a record was stored, another one after it, and the user's context was read
C8_StoredThenReadAgain ==
    /\ Len(discordLogs) = 2
    /\ ret.op = "getRelevantContext"
    /\ ret.userId = discordLogs[1].userId

-----------------------------------------------------------------------------
(* The claims about the compiled summary (under Spec and SpecLength) *)

\* C11: the compiled summary emits a section only if the data backing it is non-empty:
\* without a project context in the window there is no ACTIVE PROJECTS header and no
\* bullet, no bullet has an empty name, and for a user with nothing stored no section
\* is emitted at all, the WORKING PATTERNS description included.
C11_SectionsOnlyWithData ==
    (ret.op = "getRelevantContext" /\ ret.outcome = "returned")
        => /\ ret.value.projectContexts = <<>>
                => /\ ~includes(ret.value.summary, "ACTIVE PROJECTS")
                   /\ ~includes(ret.value.summary, "\n- ")
           /\ ~includes(ret.value.summary, "\n- :")
           /\ NothingStoredFor(ret.userId)
                => /\ ~includes(ret.value.summary, "WORKING PATTERNS")
                   /\ ~includes(ret.value.summary, "PREFERRED")
                   /\ ~includes(ret.value.summary, "SKILL DEVELOPMENT")
                   /\ ~includes(ret.value.summary, "Latest work session")

-----------------------------------------------------------------------------
(* SpecLength: the read path over a technical session whose free-text fields are long *)

MaxLengthLogs == 2

\* s repeated n times
RECURSIVE Repeat(_, _)
Repeat(s, n) ==
    IF n = 0 THEN ""
    ELSE IF n % 2 = 1 THEN s \o Repeat(s, n - 1)
    ELSE Repeat(s \o s, n \div 2)

\* technical_sessions holding one session of u1 with a focus area of 3200 characters
LongSessionSets ==
    {<<[userId |-> "u1", createdAt |-> 0,
        focusArea |-> Repeat("refactoring the payment service ", 100),
        technologies |-> <<"docker", "redis">>, productivity |-> "High"]>>}

InitLength ==
    /\ initialized = [i \in Instances |-> FALSE]
    /\ collections = [i \in Instances |-> FALSE]
    /\ discordLogs = <<>>
    /\ projectContexts = <<>>
    /\ skillProgressions = <<>>
    /\ technicalLogs \in LongSessionSets
    /\ now = 0
    /\ pendingConfirmations = {}
    /\ storeCalls = <<>>
    /\ ret = [op |-> "none", outcome |-> "returned", userId |-> "", message |-> "", value |-> EmptyObject]
    /\ InitService

LengthStore ==
    \E u \in Users, m \in Messages :
        /\ Len(discordLogs) < MaxLengthLogs
        /\ StoreInteraction(Interaction(u, "coding", m), NoStoreFailure)

LengthRead ==
    \E u \in Users : GetRelevantContext(u, 14, NoReadFailure)

NextLength == LengthStore \/ LengthRead

SpecLength == InitLength /\ [][NextLength]_vars

\* the length the summary compiler's contract names
SummaryLimit == 1500

\* C12: the string the summary compiler returns is bounded for prompt injection: it has
\* at most (about) 1500 characters, whatever the lengths of the session fields, project
\* names and technology lists compiled into it.
C12_SummaryLengthBounded ==
    (ret.op = "getRelevantContext" /\ ret.outcome = "returned")
        => Len(ret.value.summary) <= SummaryLimit

-----------------------------------------------------------------------------
(* The claim about the order of two writes (under SpecRing) *)

\* the two collections hold the same documents, whatever their order
SameDocs(a, b) ==
    /\ Len(a) = Len(b)
    /\ \A d \in Range(a) \cup Range(b) : Count(a, d) = Count(b, d)

\* the interaction a stored record came from
InteractionOf(record) ==
    [userId |-> record.userId, channel |-> record.channel,
     userMessage |-> record.userMessage, botResponse |-> record.botResponse,
     timestamp |-> record.timestamp]

\* the store after the two interactions of the log were stored in the other order,
\* starting from the empty store
StoredInOtherOrder ==
    storeInteractionOver(
        storeInteractionOver(
            [discordLogs |-> <<>>, projectContexts |-> <<>>, skillProgressions |-> <<>>],
            InteractionOf(discordLogs[2])),
        InteractionOf(discordLogs[1]))

\* C13: writes for the same user commute: after two storeInteraction calls for one user
\* the interaction store, the user's project contexts and the user's skill progressions
\* (counts, level progress, recentInteractions, interaction list) are what the same
\* two calls leave behind when run in the other order.
C13_WritesCommute ==
    (Len(discordLogs) = 2 /\ discordLogs[1].userId = discordLogs[2].userId)
        => /\ SameDocs(discordLogs, StoredInOtherOrder.discordLogs)
           /\ SameDocs(projectContexts, StoredInOtherOrder.projectContexts)
           /\ SameDocs(skillProgressions, StoredInOtherOrder.skillProgressions)

-----------------------------------------------------------------------------
(* SpecChat: MessageHandler.handleMessage for a chat message, every step of it able
   to fail *)

MaxChatLogs == 1

\* the reply of the catch block of handleMessage
ErrorReply == "Something went wrong processing your request. Please try again."

\* where the store may reject the operations of the getRelevantContext call of
\* buildMessageContext: during initialize, or in every query, or nowhere
ChatReadFailures == {f \in ReadFailures : f.queries \in {{}, QueryNames}}

\* where the store may reject the operations of the storeInteraction call
ChatStoreFailures ==
    {[NoStoreFailure EXCEPT !.init = i, !.insert = b, !.skills = k] :
        i \in InitFailures, b \in BOOLEAN, k \in {{}, {1}}}

\* handleMessage(message) for a message that is no admin command: the context is
\* built (getRelevantContext), the response is generated, the interaction is stored,
\* the response is sent and the follow-up actions run; an exception of any step ends
\* in the catch block, which sends the error reply
HandleMessage(u, c, m, fr, llmFails, fs, replyFails, postFails) ==
    \E rinit \in {initialize("handler", fr.init)} :
    \E sinit \in {initializeFrom(rinit.initialized, rinit.collections, "handler", fs.init)} :
    \E body \in {StoreBody(Interaction(u, c, m), fs)} :
    \E generated \in {~rinit.threw /\ ~llmFails} :
    \E stored \in {generated /\ ~sinit.threw} :
        /\ initialized' = IF generated THEN sinit.initialized ELSE rinit.initialized
        /\ collections' = IF generated THEN sinit.collections ELSE rinit.collections
        /\ discordLogs' = IF stored THEN body.discordLogs ELSE discordLogs
        /\ projectContexts' = IF stored THEN body.projectContexts ELSE projectContexts
        /\ skillProgressions' = IF stored THEN body.skillProgressions ELSE skillProgressions
        /\ storeCalls' =
               rinit.calls
               \o (IF rinit.threw THEN <<>>
                   ELSE Map(Queries, LAMBDA q : Call("find", q[2], q[1], q[1] \notin fr.queries)))
               \o (IF generated THEN sinit.calls ELSE <<>>)
               \o (IF stored THEN body.calls ELSE <<>>)
        /\ ret' = [op |-> "handleMessage", outcome |-> "returned", userId |-> u,
                   message |-> m,
                   value |-> [generated |-> generated,
                              response |-> IF generated THEN BotResponse ELSE "",
                              replyRejected |-> stored /\ replyFails,
                              replies |-> IF ~stored \/ replyFails THEN <<ErrorReply>>
                                          ELSE IF postFails THEN <<BotResponse, ErrorReply>>
                                          ELSE <<BotResponse>>]]
        /\ UNCHANGED <<serviceVars, technicalLogs, now, pendingConfirmations>>

Chat ==
    \E u \in Users, m \in Messages, fr \in ChatReadFailures, fs \in ChatStoreFailures,
       llmFails \in BOOLEAN, replyFails \in BOOLEAN, postFails \in BOOLEAN :
        /\ Len(discordLogs) < MaxChatLogs
        /\ HandleMessage(u, "coding", m, fr, llmFails, fs, replyFails, postFails)

NextChat == Chat

SpecChat == Init /\ [][NextChat]_vars

-----------------------------------------------------------------------------
(* SpecClock: one user writing at different hours of the day, and reading *)

MaxClock == 18
MaxClockLogs == 3

\* the hours that pass between two events
ClockSteps == {6, 12}

\* time passes: new Date() returns a later instant
Tick ==
    \E h \in ClockSteps :
        /\ now + h <= MaxClock
        /\ now' = now + h
        /\ UNCHANGED <<serviceVars, initialized, collections, discordLogs, projectContexts,
                       skillProgressions, technicalLogs, pendingConfirmations, storeCalls, ret>>

ClockStore ==
    \E m \in ClockMessages :
        /\ Len(discordLogs) < MaxClockLogs
        /\ StoreInteraction(Interaction("u1", "coding", m), NoStoreFailure)

ClockRead == GetRelevantContext("u1", 14, NoReadFailure)

NextClock == Tick \/ ClockStore \/ ClockRead

SpecClock == Init /\ [][NextClock]_vars

\* the place of x in the vocabulary
VocabularyRank(vocabulary, x) == CHOOSE i \in 1..Len(vocabulary) : vocabulary[i] = x

\* the keys of a table of counts, the most frequent first and, among equally frequent
\* ones, the one the vocabulary lists first; at most the first three
RankedTop3(table, vocabulary) ==
    LET before(a, b) ==
            \/ a.count > b.count
            \/ a.count = b.count
               /\ VocabularyRank(vocabulary, a.key) < VocabularyRank(vocabulary, b.key)
        place(e) == 1 + Cardinality({x \in Range(table) : before(x, e)})
    IN  [i \in 1..Min(3, Len(table)) |-> (CHOOSE e \in Range(table) : place(e) = i).key]

\* C15: preferredLanguages and preferredFrameworks list the (at most three) most
\* frequent entries of the window in descending frequency, entries of equal frequency
\* in the order in which the vocabulary declares them, whatever the order in which the
\* interactions were stored or scanned.
C15_TiesInVocabularyOrder ==
    (ret.op = "getRelevantContext" /\ ret.outcome = "returned")
        => /\ ret.value.discordPatterns.preferredLanguages
                = RankedTop3(ret.value.discordPatterns.languageUsage, languages)
           /\ ret.value.discordPatterns.preferredFrameworks
                = RankedTop3(ret.value.discordPatterns.frameworkUsage, frameworks)

\* the timestamps of the user's interactions and sessions of the window
WindowTimes(userId, lookbackDays) ==
    Map(SelectSeq(discordLogs, LAMBDA d : d.userId = userId
                                          /\ d.timestamp >= CutoffDate(lookbackDays)),
        LAMBDA d : d.timestamp)
    \o Map(SelectSeq(technicalLogs, LAMBDA s : s.userId = userId
                                               /\ s.createdAt >= CutoffDate(lookbackDays)),
           LAMBDA s : s.createdAt)

\* how many of the timestamps fall on an hour from lo to hi
InBucket(times, lo, hi) ==
    Len(SelectSeq(times, LAMBDA t : (t % 24) >= lo /\ (t % 24) <= hi))

\* the label the bucket counts of the timestamps give
LabelOfCounts(morning, afternoon, evening) ==
    IF morning >= afternoon /\ morning >= evening THEN "morning-person"
    ELSE IF evening >= afternoon THEN "evening-person"
    ELSE "afternoon-person"

\* C16: the working-time label comes from the bucket counts of all interaction and
\* session timestamps: morning-person if the morning count (hours 6-11) is at least the
\* afternoon (12-17) and the evening (18-23) count, otherwise evening-person if the
\* evening count is at least the afternoon count, otherwise afternoon-person.
C16_LabelFromBucketCounts ==
    (ret.op = "getRelevantContext" /\ ret.outcome = "returned")
        => ret.value.workflowPatterns.workingHours.preferredWorkingTime
            = LabelOfCounts(InBucket(WindowTimes(ret.userId, 14), 6, 11),
                            InBucket(WindowTimes(ret.userId, 14), 12, 17),
                            InBucket(WindowTimes(ret.userId, 14), 18, 23))

\* C16 as the code has it: the label comes from the peak hours, the (at most three)
\* hours of the day with the most interaction and session timestamps: it is
\* morning-person if at least as many peak hours are morning hours (6-11) as are
\* afternoon (12-17) and as are evening hours (18-23), otherwise evening-person if at
\* least as many are evening as afternoon hours, otherwise afternoon-person.
C16_LabelFromPeakHours ==
    (ret.op = "getRelevantContext" /\ ret.outcome = "returned")
        => LET workingHours == ret.value.workflowPatterns.workingHours
               peak == workingHours.peakHours
               times == WindowTimes(ret.userId, 14)
               hoursSeen == {h \in 0..23 : InBucket(times, h, h) > 0}
           IN  /\ Len(peak) = Min(3, Cardinality(hoursSeen))
               /\ Cardinality(Range(peak)) = Len(peak)
               /\ Range(peak) \subseteq hoursSeen
               /\ \A p \in Range(peak) : \A h \in hoursSeen \ Range(peak) :
                      InBucket(times, p, p) >= InBucket(times, h, h)
               /\ workingHours.preferredWorkingTime
                    = LabelOfCounts(Cardinality(Range(peak) \cap (6..11)),
                                    Cardinality(Range(peak) \cap (12..17)),
                                    Cardinality(Range(peak) \cap (18..23)))

\* a read whose label is morning-person although more timestamps fall in the afternoon
\* than in the morning
C16_PeakHoursAgainstCounts ==
    /\ ret.op = "getRelevantContext"
    /\ ret.outcome = "returned"
    /\ ret.value.workflowPatterns.workingHours.preferredWorkingTime = "morning-person"
    /\ InBucket(WindowTimes(ret.userId, 14), 12, 17) > InBucket(WindowTimes(ret.userId, 14), 6, 11)

-----------------------------------------------------------------------------
(* SpecTrend: calculateLearningTrend applied to the recent interactions of a skill,
   one more interaction at a time *)

MaxTrendLen == 7

Difficulties == {"simple", "medium", "complex"}

\* calculateLearningTrend(interactions) for the interactions of the last call and one
\* more of difficulty d
LearningTrendCall(d) ==
    \E interactions \in {Append(IF ret.op = "calculateLearningTrend"
                                THEN ret.value.interactions ELSE <<>>,
                                [difficulty |-> d])} :
        /\ Len(interactions) <= MaxTrendLen
        /\ ret' = [op |-> "calculateLearningTrend", outcome |-> "returned", userId |-> "",
                   message |-> "",
                   value |-> [interactions |-> interactions,
                              learningTrend |-> calculateLearningTrend(interactions)]]
        /\ UNCHANGED <<serviceVars, initialized, collections, discordLogs, projectContexts,
                       skillProgressions, technicalLogs, now, pendingConfirmations, storeCalls>>

NextTrend == \E d \in Difficulties : LearningTrendCall(d)

SpecTrend == InitAdmin /\ [][NextTrend]_vars

\* the tier (1 simple, 2 medium, 3 complex) of the average of the difficulty scores of
\* interactions lo..hi: below 1.5 simple, below 2.5 medium, else complex
TierOfAverage(interactions, lo, hi) ==
    LET score(i) == IF interactions[i].difficulty = "simple" THEN 1
                    ELSE IF interactions[i].difficulty = "medium" THEN 2 ELSE 3
        total == SumSeq([k \in 1..(hi - lo + 1) |-> score(lo + k - 1)])
        n == hi - lo + 1
    IN  IF 2 * total < 3 * n THEN 1 ELSE IF 2 * total < 5 * n THEN 2 ELSE 3

\* C17: calculateLearningTrend returns insufficient-data for fewer than 3 interactions;
\* otherwise it compares the tier of the average difficulty of the last 5 interactions
\* with the tier of the average of the older ones (the tier simple when there is no
\* older one): improving when the recent tier is greater, declining when it is lesser,
\* stable when equal. Three simple interactions followed by two complex ones give
\* improving.
C17_LearningTrend ==
    ret.op = "calculateLearningTrend"
        => LET interactions == ret.value.interactions
               n == Len(interactions)
               recent == TierOfAverage(interactions, IF n > 5 THEN n - 4 ELSE 1, n)
               older == IF n > 5 THEN TierOfAverage(interactions, 1, n - 5) ELSE 1
           IN  /\ ret.value.learningTrend
                    = IF n < 3 THEN "insufficient-data"
                      ELSE IF recent > older THEN "improving"
                      ELSE IF recent < older THEN "declining"
                      ELSE "stable"
               /\ [i \in 1..n |-> interactions[i].difficulty]
                      = <<"simple", "simple", "simple", "complex", "complex">>
                    => ret.value.learningTrend = "improving"

\* the trend of three simple interactions followed by two complex ones was computed
C17_ThreeSimpleTwoComplex ==
    /\ ret.op = "calculateLearningTrend"
    /\ [i \in 1..Len(ret.value.interactions) |-> ret.value.interactions[i].difficulty]
           = <<"simple", "simple", "simple", "complex", "complex">>
    /\ ret.value.learningTrend = "improving"

\* C30: for a skill with 3 to 5 recorded interactions the older group is empty and is
\* scored as simple (1), so calculateLearningTrend does not return declining: it returns
\* stable when the tier of the average of the recorded interactions is simple and
\* improving otherwise; declining is returned only for at least 6 recorded interactions.
C30_NoDeclineUpToFive ==
    ret.op = "calculateLearningTrend"
        => \E n \in {Len(ret.value.interactions)} :
               /\ n \in 3..5
                    => ret.value.learningTrend
                         = IF TierOfAverage(ret.value.interactions, 1, n) = 1
                           THEN "stable" ELSE "improving"
               /\ ret.value.learningTrend = "declining" => n >= 6

\* the trend of three medium interactions was computed: improving, with no older
\* interaction to compare with
C30_ThreeMediumImproving ==
    /\ ret.op = "calculateLearningTrend"
    /\ [i \in 1..Len(ret.value.interactions) |-> ret.value.interactions[i].difficulty]
           = <<"medium", "medium", "medium">>
    /\ ret.value.learningTrend = "improving"

\* C18: the read path returns only project contexts and skill progressions of the user
\* that were updated within the window, at most 5 projects and at most 10 skills, each
\* list with the most recently updated first, so that what is left out was updated no
\* later than what is returned.
C18_MostRecentlyUpdatedFirst ==
    (ret.op = "getRelevantContext" /\ ret.outcome = "returned")
        => LET projects == ret.value.projectContexts
               skills == ret.value.skillPatterns
               myProjects == {d \in Range(projectContexts) :
                                 d.userId = ret.userId /\ d.lastActivity >= CutoffDate(14)}
               mySkills == {d \in Range(skillProgressions) :
                               d.userId = ret.userId /\ d.lastPracticed >= CutoffDate(14)}
           IN  /\ Len(projects) = Min(5, Cardinality(myProjects))
               /\ Len(skills) = Min(10, Cardinality(mySkills))
               /\ \A i \in 1..Len(projects) :
                      /\ \E d \in myProjects : d.projectName = projects[i].name
                                               /\ d.lastActivity = projects[i].lastActivity
                      /\ \A j \in i..Len(projects) :
                             projects[i].lastActivity >= projects[j].lastActivity
                      /\ \A d \in myProjects :
                             \/ \E j \in 1..Len(projects) : projects[j].name = d.projectName
                             \/ d.lastActivity <= projects[i].lastActivity
               /\ \A i \in 1..Len(skills) :
                      /\ \E d \in mySkills : d.skill = skills[i].name
                                             /\ d.lastPracticed = skills[i].lastPracticed
                      /\ \A j \in i..Len(skills) :
                             skills[i].lastPracticed >= skills[j].lastPracticed
                      /\ \A d \in mySkills :
                             \/ \E j \in 1..Len(skills) : skills[j].name = d.skill
                             \/ d.lastPracticed <= skills[i].lastPracticed

-----------------------------------------------------------------------------
(* SpecClassify: classifyQuestionType applied to messages put together from the
   keywords of its rules, in either case, and from a word that is no keyword *)

MaxWords == 2

Phrases == {"how to", "how do", "debug", "error", "fix", "review", "feedback",
            "best practice", "recommend", "explain", "what is", "optimize", "performance",
            "design", "architecture", "please", "How Do", "ERROR"}

\* classifyQuestionType(message) for the message of the last call with one more phrase
ClassifyCall(phrase) ==
    \E message \in {IF ret.op = "classifyQuestionType"
                    THEN ret.value.message \o " " \o phrase ELSE phrase} :
        /\ ret.op = "classifyQuestionType" => ret.value.words < MaxWords
        /\ ret' = [op |-> "classifyQuestionType", outcome |-> "returned", userId |-> "",
                   message |-> "",
                   value |-> [message |-> message,
                              words |-> IF ret.op = "classifyQuestionType"
                                        THEN ret.value.words + 1 ELSE 1,
                              questionType |-> classifyQuestionType(message)]]
        /\ UNCHANGED <<serviceVars, initialized, collections, discordLogs, projectContexts,
                       skillProgressions, technicalLogs, now, pendingConfirmations, storeCalls>>

NextClassify == \E phrase \in Phrases : ClassifyCall(phrase)

SpecClassify == InitAdmin /\ [][NextClassify]_vars

\* the rules in their order of precedence, each with its keywords
QuestionRules ==
    << <<"how-to", {"how to", "how do"}>>,
       <<"debugging", {"debug", "error", "fix"}>>,
       <<"code-review", {"review", "feedback"}>>,
       <<"best-practices", {"best practice", "recommend"}>>,
       <<"explanation", {"explain", "what is"}>>,
       <<"optimization", {"optimize", "performance"}>>,
       <<"architecture", {"design", "architecture"}>> >>

\* a keyword of rule i occurs in the lowercased message
RuleApplies(i, lowerMessage) ==
    \E keyword \in QuestionRules[i][2] : includes(lowerMessage, keyword)

\* C19: classifyQuestionType is first-match-wins over the rule order how-to, debugging,
\* code-review, best-practices, explanation, optimization, architecture, general: the
\* result is the earliest rule one of whose keywords occurs in the lowercased message,
\* and general when none occurs.
C19_FirstMatchWins ==
    ret.op = "classifyQuestionType"
        => \A lowerMessage \in {toLowerCase(ret.value.message)} :
             \A applying \in {{i \in 1..Len(QuestionRules) : RuleApplies(i, lowerMessage)}} :
                /\ \A i \in applying :
                       (\A j \in applying : i <= j)
                           => ret.value.questionType = QuestionRules[i][1]
                /\ applying = {} => ret.value.questionType = "general"

\* a message with both "how do" and "error" was classified as how-to
C19_HowDoBeforeError ==
    /\ ret.op = "classifyQuestionType"
    /\ ret.value.message = "error how do"
    /\ ret.value.questionType = "how-to"

-----------------------------------------------------------------------------
(* SpecScenario: the users writing the three messages of the aggregation scenario *)

MaxScenarioLogs == 3

ScenarioStore ==
    \E u \in Users, i \in 1..Len(ScenarioMessages) :
        /\ Len(discordLogs) < MaxScenarioLogs
        /\ StoreInteraction(Interaction(u, "coding", ScenarioMessages[i]), NoStoreFailure)

ScenarioRead == \E u \in Users : GetRelevantContext(u, 14, NoReadFailure)

NextScenario == ScenarioStore \/ ScenarioRead

SpecScenario == InitAdmin /\ [][NextScenario]_vars

\* the user has stored the three messages of the scenario, in their order, and no other
StoredScenario(userId) ==
    Map(SelectSeq(discordLogs, LAMBDA d : d.userId = userId), LAMBDA d : d.userMessage)
        = ScenarioMessages

\* C20: after a user has stored three interactions, the first mentioning javascript
\* with the word build, the second react with the word simple, the third javascript
\* with the word optimize, the aggregation over a 14-day window gives
\* preferredLanguages = [javascript] and complexityDistribution = {simple: 1,
\* medium: 1, complex: 1}.
C20_ScenarioAggregate ==
    (ret.op = "getRelevantContext" /\ ret.outcome = "returned" /\ StoredScenario(ret.userId))
        => /\ ret.value.discordPatterns.preferredLanguages = <<"javascript">>
           /\ ret.value.discordPatterns.complexityDistribution
                = [simple |-> 1, medium |-> 1, complex |-> 1]

-----------------------------------------------------------------------------
(* SpecCode: extractCodeBlocks over the texts made of fences, backticks and letters *)

MaxPieces == 7

Pieces == {Fence, Backtick, "a"}

\* extractCodeBlocks(text) for the text of the last call with one more piece
CodeBlocksCall(piece) ==
    \E pieces \in {IF ret.op = "extractCodeBlocks"
                   THEN Append(ret.value.pieces, piece) ELSE <<piece>>} :
        /\ Len(pieces) <= MaxPieces
        /\ ret' = [op |-> "extractCodeBlocks", outcome |-> "returned", userId |-> "",
                   message |-> "",
                   value |-> [pieces |-> pieces,
                              codeBlocks |-> extractCodeBlocks(join(pieces, ""))]]
        /\ UNCHANGED <<serviceVars, initialized, collections, discordLogs, projectContexts,
                       skillProgressions, technicalLogs, now, pendingConfirmations, storeCalls>>

NextCode == \E piece \in Pieces : CodeBlocksCall(piece)

SpecCode == InitAdmin /\ [][NextCode]_vars

\* the places of the pieces that are the given delimiter
PlacesOf(pieces, delimiter) == {i \in 1..Len(pieces) : pieces[i] = delimiter}

\* no two delimiters touch: each fence and each backtick of the text is one piece
Separated(pieces) ==
    \A i \in 1..(Len(pieces) - 1) : pieces[i] = "a" \/ pieces[i + 1] = "a"

\* one fenced block and, outside it, one inline span
OneBlockOneSpan(pieces) ==
    /\ Separated(pieces)
    /\ Cardinality(PlacesOf(pieces, Fence)) = 2
    /\ Cardinality(PlacesOf(pieces, Backtick)) = 2
    /\ \/ \A t \in PlacesOf(pieces, Backtick), f \in PlacesOf(pieces, Fence) : t < f
       \/ \A t \in PlacesOf(pieces, Backtick), f \in PlacesOf(pieces, Fence) : t > f

\* C21: for every text with exactly two triple-backtick delimiters (one fenced block)
\* and one single-backtick inline span, extractCodeBlocks returns blocks = 1,
\* inline = 1 and hasCode = true: the fenced block is not counted as inline code.
C21_OneBlockOneInline ==
    (ret.op = "extractCodeBlocks" /\ OneBlockOneSpan(ret.value.pieces))
        => ret.value.codeBlocks = [blocks |-> 1, inline |-> 1, hasCode |-> TRUE]

-----------------------------------------------------------------------------
(* SpecExtract: storeInteraction of interactions whose texts may be absent *)

MaxRawLogs == 2

\* the values null and undefined of a text field; no message is one of these strings
JsNull == "<null>"
JsUndefined == "<undefined>"

Absent(v) == v \in {JsNull, JsUndefined}

\* the operand v of a string concatenation: null gives "null", undefined "undefined"
JsToString(v) == IF v = JsNull THEN "null" ELSE IF v = JsUndefined THEN "undefined" ELSE v

RawUserMessages == ClockMessages \cup {"hello", JsNull, JsUndefined}
RawBotResponses == {BotResponse, JsNull, JsUndefined}

\* extractTechnicalContext(interaction) with texts that may be absent: the three
\* detections and extractCodeBlocks get the concatenation, classifyQuestionType calls
\* message.toLowerCase() on userMessage and raises a TypeError when it is absent
extractTechnicalContextRaw(userMessage, botResponse) ==
    IF Absent(userMessage)
    THEN [threw |-> TRUE, value |-> EmptyObject]
    ELSE [threw |-> FALSE,
          value |-> extractTechnicalContext([userMessage |-> userMessage,
                                             botResponse |-> JsToString(botResponse)])]

\* the try block of storeInteraction: nothing is written when the extraction raises
RawStoreBody(interaction, context) ==
    IF context.threw
    THEN [discordLogs |-> discordLogs, projectContexts |-> projectContexts,
          skillProgressions |-> skillProgressions, calls |-> <<>>]
    ELSE StoreEffects(
             Append(discordLogs, [userId |-> interaction.userId,
                                  channel |-> interaction.channel,
                                  userMessage |-> interaction.userMessage,
                                  botResponse |-> interaction.botResponse,
                                  timestamp |-> interaction.timestamp,
                                  technicalContext |-> context.value]),
             updateProjectContext(projectContexts, interaction, FALSE),
             updateSkillProgression(skillProgressions, interaction, {}))

\* storeInteraction({userId, channel, userMessage, botResponse, timestamp})
RawStoreInteraction(interaction) ==
    \E init \in {initialize("handler", "none")},
       body \in {RawStoreBody(interaction,
                              extractTechnicalContextRaw(interaction.userMessage,
                                                         interaction.botResponse))} :
        /\ initialized' = init.initialized
        /\ collections' = init.collections
        /\ discordLogs' = body.discordLogs
        /\ projectContexts' = body.projectContexts
        /\ skillProgressions' = body.skillProgressions
        /\ storeCalls' = init.calls \o body.calls
        /\ ret' = [op |-> "storeInteraction", outcome |-> "returned",
                   userId |-> interaction.userId,
                   message |-> interaction.userMessage, value |-> EmptyObject]
        /\ UNCHANGED <<serviceVars, technicalLogs, now, pendingConfirmations>>

RawStore ==
    \E u \in Users, userMessage \in RawUserMessages, botResponse \in RawBotResponses :
        /\ Len(discordLogs) < MaxRawLogs
        /\ RawStoreInteraction([userId |-> u, channel |-> "coding",
                                userMessage |-> userMessage, botResponse |-> botResponse,
                                timestamp |-> now])

NextExtract == RawStore

SpecExtract == InitAdmin /\ [][NextExtract]_vars

\* the text of a field, the empty string when it is absent
TextOrEmpty(v) == IF Absent(v) THEN "" ELSE v

\* C22: tag extraction is total: storeInteraction of an interaction whose user text or
\* response text is absent or null does not raise in the extraction, treats the absent
\* text as the empty string (empty tag sets, question type general, complexity simple
\* for an absent user text) and stores the tagged interaction like any other.
C22_ExtractionTotal ==
    (ret.op = "storeInteraction" /\ ret.outcome = "returned")
        => /\ discordLogs # <<>>
           /\ \A d \in {discordLogs[Len(discordLogs)]} :
                 /\ d.userId = ret.userId
                 /\ d.userMessage = ret.message
                 /\ d.technicalContext
                      = extractTechnicalContext([userMessage |-> TextOrEmpty(d.userMessage),
                                                 botResponse |-> TextOrEmpty(d.botResponse)])

-----------------------------------------------------------------------------
(* SpecQuestions: messages of several question types, then the compiled summary *)

MaxQuestionLogs == 3

QuestionStore ==
    \E u \in Users, m \in QuestionMessages \cup BulkMessages :
        /\ Len(discordLogs) < MaxQuestionLogs
        /\ StoreInteraction(Interaction(u, "coding", m), NoStoreFailure)

QuestionRead == \E u \in Users : GetRelevantContext(u, 14, NoReadFailure)

NextQuestions == QuestionStore \/ QuestionRead

SpecQuestions == InitAdmin /\ [][NextQuestions]_vars

\* the lists of the n most frequent keys of a table, in descending frequency
MostFrequent(table, n) ==
    {top \in UNION {[1..k -> Range(table)] : k \in {IF Len(table) < n THEN Len(table) ELSE n}} :
        /\ \A i, j \in DOMAIN top : i < j => top[i] # top[j] /\ top[i].count >= top[j].count
        /\ \A e \in Range(table) : \A i \in DOMAIN top : e \in Range(top) \/ e.count <= top[i].count}

\* a question type as the claim has it written: its hyphen replaced by a space
Spoken(type) == replace(type, "-", " ")

\* C23: the question-pattern section of the compiled summary lists the 2 most frequent
\* question types of the window, in descending frequency, each written with its hyphens
\* replaced by spaces (how-to appears as "how to", code-review as "code review").
C23_QuestionTypesSpoken ==
    (ret.op = "getRelevantContext" /\ ret.outcome = "returned"
     /\ ret.value.discordPatterns.questionTypes # <<>>)
        => \E top \in MostFrequent(ret.value.discordPatterns.questionTypes, 2) :
               includes(ret.value.summary,
                        "QUESTION PATTERNS: Often asks about "
                            \o join([i \in DOMAIN top |-> Spoken(top[i].key)], " and ")
                            \o "\n\n")

-----------------------------------------------------------------------------
(* SpecConfirm: handleButtonInteraction split at its awaits, so that presses, the
   cancel button and the expiry timer interleave with a reset that is executing *)

\* confirmation.userId === interaction.user.id
InitiatedBy(confirmation, user) == confirmation.userId = user

\* handleButtonInteraction with customId confirm_<id>, up to the await of
\* interaction.deferUpdate() in executeResetMemory
ConfirmPress(id, user) ==
    /\ storeCalls' = <<>>
    /\ UNCHANGED <<initialized, collections, discordLogs, projectContexts, skillProgressions,
                   technicalLogs, now, pendingConfirmations, channelConfigs, configCache,
                   lastCacheUpdate, dateNow>>
    /\ IF \A c \in pendingConfirmations : c.id # id
       THEN /\ ret' = [op |-> "confirm", outcome |-> "returned", userId |-> user,
                       message |-> "", value |-> [title |-> "Confirmation Expired"]]
            /\ UNCHANGED inFlight
       ELSE \E confirmation \in {c \in pendingConfirmations : c.id = id} :
               IF ~InitiatedBy(confirmation, user)
               THEN /\ ret' = [op |-> "confirm", outcome |-> "returned", userId |-> user,
                               message |-> "", value |-> [title |-> "Access Denied"]]
                    /\ UNCHANGED inFlight
               ELSE /\ Cardinality(inFlight) < MaxInFlight
                    /\ inFlight' = inFlight \cup
                           {Frame(NewCall, "confirm", id, "deferUpdate", confirmation)}
                    /\ ret' = [op |-> "confirm", outcome |-> "awaiting", userId |-> user,
                               message |-> "", value |-> [title |-> ""]]

\* executeResetMemory after deferUpdate: discordLogs.deleteMany({channel}) reaches the
\* store; with the collection handles still null it raises a TypeError instead
ExecuteDeleteLogs(frame, fails) ==
    /\ frame.op = "confirm" /\ frame.step = "deferUpdate"
    /\ discordLogs' = IF collections["admin"] /\ ~fails
                      THEN SelectSeq(discordLogs,
                                     LAMBDA d : d.channel # frame.config.channelType)
                      ELSE discordLogs
    /\ storeCalls' = IF collections["admin"]
                     THEN <<Call("deleteMany", "discord_interactions",
                                 frame.config.channelType, ~fails)>>
                     ELSE <<>>
    /\ inFlight' = (inFlight \ {frame}) \cup
           {Suspended(frame, IF collections["admin"] /\ ~fails THEN "deleteProjects"
                             ELSE "errorReply", frame.config)}
    /\ UNCHANGED <<initialized, collections, projectContexts, skillProgressions,
                   technicalLogs, now, pendingConfirmations, ret, channelConfigs,
                   configCache, lastCacheUpdate, dateNow>>

\* executeResetMemory: projectContexts.deleteMany({}) reaches the store
ExecuteDeleteProjects(frame, fails) ==
    /\ frame.op = "confirm" /\ frame.step = "deleteProjects"
    /\ projectContexts' = IF fails THEN projectContexts ELSE <<>>
    /\ storeCalls' = <<Call("deleteMany", "project_contexts", "", ~fails)>>
    /\ inFlight' = (inFlight \ {frame}) \cup
           {Suspended(frame, IF fails THEN "errorReply" ELSE "editReply", frame.config)}
    /\ UNCHANGED <<initialized, collections, discordLogs, skillProgressions,
                   technicalLogs, now, pendingConfirmations, ret, channelConfigs,
                   configCache, lastCacheUpdate, dateNow>>

\* the reply is edited, executeResetMemory returns and handleButtonInteraction runs
\* this.pendingConfirmations.delete(confirmationId)
ConfirmFinish(frame) ==
    /\ frame.op = "confirm" /\ frame.step \in {"editReply", "errorReply"}
    /\ inFlight' = inFlight \ {frame}
    /\ pendingConfirmations' = {c \in pendingConfirmations : c.id # frame.key}
    /\ storeCalls' = <<>>
    /\ ret' = [op |-> "confirm", outcome |-> "returned", userId |-> frame.config.userId,
               message |-> "",
               value |-> [title |-> IF frame.step = "editReply" THEN "Memory Reset Complete"
                                    ELSE "Memory Reset Error",
                          channelType |-> frame.config.channelType]]
    /\ UNCHANGED <<initialized, collections, discordLogs, projectContexts, skillProgressions,
                   technicalLogs, now, channelConfigs, configCache, lastCacheUpdate, dateNow>>

MaxConfirmLogs == 1

\* a user writes about a project in one of the channels
ConfirmStore ==
    /\ StoreLoad < MaxConfirmLogs
    /\ StoreInteraction(Interaction("u1", "coding", "working on my blog app in python"),
                        NoStoreFailure)

\* getStats() of the admin service: its MemoryService gets its collection handles
ConfirmStats == ~collections["admin"] /\ GetStats("none")

\* an admin asks for the reset of the coding channel
ConfirmCommand == \E id \in 1..MaxPending, a \in Admins : HandleResetMemory(id, a, "coding")

Press == \E id \in 1..MaxPending, user \in Admins \cup {"u1"} : ConfirmPress(id, user)

DeleteLogs == \E frame \in inFlight : ExecuteDeleteLogs(frame, FALSE)

DeleteProjects == \E frame \in inFlight : ExecuteDeleteProjects(frame, FALSE)

Finish == \E frame \in inFlight : ConfirmFinish(frame)

NextConfirm ==
    ConfirmStore \/ ConfirmStats \/ ConfirmCommand \/ Expire \/ Cancel \/ Press \/ DeleteLogs
        \/ DeleteProjects \/ Finish

SpecConfirm == InitAdmin /\ [][NextConfirm]_vars

\* the calls that start executing a reset in this step
PressedNow(frames, framesAfter) ==
    {f \in framesAfter \ frames : f.op = "confirm" /\ f.step = "deferUpdate"}

\* the calls whose deleteMany reaches the store in this step
DeletingNow(frames, framesAfter) ==
    {f \in frames \ framesAfter :
        /\ f.op = "confirm"
        /\ \/ f.step = "deferUpdate" /\ collections["admin"]
           \/ f.step = "deleteProjects"}

\* C24: a memory reset is executed only in response to a confirm-button press made by
\* the user who initiated the command, while that confirmation is still pending: an
\* execution starts only at a press of the initiator for a pending confirmation, a
\* press by another user or for a confirmation that is gone starts none, documents
\* are deleted only by such an execution, and no deleteMany is issued after the
\* confirmation was cancelled or has expired.
C24_ExecutedOnlyWhilePending ==
    [][/\ \A f \in PressedNow(inFlight, inFlight') :
              /\ f.config \in pendingConfirmations
              /\ ret'.op = "confirm" /\ ret'.userId = f.config.userId
       /\ (ret'.op = "confirm" /\ ret' # ret /\ ret'.outcome = "returned"
           /\ ret'.value.title \in {"Confirmation Expired", "Access Denied"})
              => /\ PressedNow(inFlight, inFlight') = {}
                 /\ discordLogs' = discordLogs /\ projectContexts' = projectContexts
       /\ (Len(discordLogs') < Len(discordLogs) \/ Len(projectContexts') < Len(projectContexts))
              => DeletingNow(inFlight, inFlight') # {}
       /\ \A f \in DeletingNow(inFlight, inFlight') : f.config \in pendingConfirmations
      ]_vars

\* C25: each pending confirmation leads to at most one execution of its reset: of two
\* confirm-button presses for the same confirmation, the second arriving while the
\* first execution is still awaiting the store, at most one runs the deleteMany.
C25_AtMostOneExecution ==
    \A f, g \in inFlight :
        (/\ f.op = "confirm" /\ g.op = "confirm" /\ f.config = g.config
         /\ f.step \in {"deleteProjects", "editReply"}
         /\ g.step \in {"deleteProjects", "editReply"})
            => f = g

-----------------------------------------------------------------------------
(* SpecDispatch: MessageHandler.handleMessage from its first line: admin command,
   restricted channel or chat *)

\* the guild members who write: an administrator, a member without permissions and
\* a member whose role is named admin
Members ==
    {[id |-> "a1", administrator |-> TRUE, manageChannels |-> FALSE, adminRole |-> FALSE],
     [id |-> "u1", administrator |-> FALSE, manageChannels |-> FALSE, adminRole |-> FALSE],
     [id |-> "u2", administrator |-> FALSE, manageChannels |-> FALSE, adminRole |-> TRUE]}

MemberOf(id) == CHOOSE member \in Members : member.id = id

ChannelNames == {"coding", "general", "bot-admin"}

\* channelConfig of config/channels.js: the channel types in the order of their keys,
\* each with its keywords
channelConfig ==
    << <<"coding", {"coding", "dev", "development", "code", "programming"}>>,
       <<"general", {"general", "chat", "main", "random"}>>,
       <<"projects", {"projects", "project", "ideas", "brainstorm"}>>,
       <<"planning", {"planning", "tasks", "workflow", "productivity", "todo"}>>,
       <<"analysis", {"analysis", "data", "analytics", "research", "insights"}>>,
       <<"admin", {"admin", "config", "settings", "bot"}>> >>

hasAdminAccess(member) ==
    member.administrator \/ member.manageChannels \/ member.adminRole

\* the first channel type one of whose keywords occurs in the name, general otherwise
getChannelType(channelName) ==
    LET hits == {i \in 1..Len(channelConfig) :
                    \E keyword \in channelConfig[i][2] :
                        includes(toLowerCase(channelName), keyword)}
    IN  IF hits = {} THEN "general"
        ELSE channelConfig[CHOOSE i \in hits : \A j \in hits : i <= j][1]

isAdminCommand(content, channelType, member) ==
    /\ StartsAt(toLowerCase(content), 1, "!")
    /\ (channelType = "admin" \/ hasAdminAccess(member))

\* the branch handleAdminCommand takes and the reply it sends; updateChannelConfig is
\* called with the guild's id, which no document of the default configurations has
handleAdminCommand(content) ==
    LET command == toLowerCase(content)
        args == Tail(split(command))
    IN  IF StartsAt(command, 1, "!update-config")
        THEN [command |-> "!update-config",
              reply |-> IF Len(args) < 3 THEN "Usage: !update-config <channel> <field> <value>"
                        ELSE "Failed to update configuration for " \o args[1]]
        ELSE IF StartsAt(command, 1, "!export-config")
        THEN [command |-> "!export-config",
              reply |-> "Configuration Export: "
                        \o join([i \in 1..Len(channelConfig) |->
                                    IF channelConfig[i][1] \in DOMAIN channelConfigs
                                    THEN channelConfigs[channelConfig[i][1]].channelType
                                         \o "=" \o channelConfigs[channelConfig[i][1]].model
                                    ELSE ""], " ")]
        ELSE [command |-> "unknown",
              reply |-> "Unknown admin command. Use !help to see available commands."]

\* handleMessage(message) for a message of the member in the channel of that name
Dispatch(member, channelName, content) ==
    \E channelType \in {getChannelType(channelName)} :
        IF isAdminCommand(content, channelType, member)
        THEN /\ ret' = [op |-> "handleMessage", outcome |-> "returned", userId |-> member.id,
                        message |-> content,
                        value |-> [branch |-> "handleAdminCommand",
                                   channelType |-> channelType,
                                   executed |-> handleAdminCommand(content)]]
             /\ storeCalls' = <<>>
             /\ UNCHANGED <<serviceVars, initialized, collections, discordLogs, projectContexts,
                            skillProgressions, technicalLogs, now, pendingConfirmations>>
        ELSE IF channelType = "admin" /\ ~hasAdminAccess(member)
        THEN /\ ret' = [op |-> "handleMessage", outcome |-> "returned", userId |-> member.id,
                        message |-> content,
                        value |-> [branch |-> "restricted",
                                   channelType |-> channelType,
                                   executed |-> [command |-> "",
                                                 reply |-> "This channel is restricted to administrators."]]]
             /\ storeCalls' = <<>>
             /\ UNCHANGED <<serviceVars, initialized, collections, discordLogs, projectContexts,
                            skillProgressions, technicalLogs, now, pendingConfirmations>>
        ELSE /\ Len(discordLogs) < MaxChatLogs
             /\ HandleMessage(member.id, channelType, content, NoReadFailure, FALSE,
                              NoStoreFailure, FALSE, FALSE)

NextDispatch ==
    \E member \in Members, channelName \in ChannelNames,
       content \in CommandMessages \cup BulkMessages :
        Dispatch(member, channelName, content)

SpecDispatch == InitAdmin /\ [][NextDispatch]_vars

\* C26: a message of a member without admin access never makes the message handler
\* execute an admin ! command (such as !update-config or !export-config), in whatever
\* channel it is sent, the admin channel included: such a member only gets the
\* restricted-channel notice or a normal chat response.
C26_NoCommandWithoutAdminAccess ==
    (ret.op = "handleMessage" /\ ~hasAdminAccess(MemberOf(ret.userId)))
        => (Has(ret.value, "branch") => ret.value.branch = "restricted")

-----------------------------------------------------------------------------
(* SpecConfig: concurrent getChannelConfig and updateChannelConfig calls on one
   ChannelConfigService while the clock advances *)

ConfigGet == \E channelType \in ConfigChannels : GetChannelConfig(channelType)

ConfigFindOne == \E frame \in inFlight : FindOneServed(frame)

ConfigGetResume == \E frame \in inFlight : GetChannelConfigResume(frame)

ConfigUpdate ==
    \E channelType \in ConfigChannels, model \in ConfigModels :
        UpdateChannelConfig(channelType, model)

ConfigUpdateOne == \E frame \in inFlight : UpdateOneServed(frame)

ConfigUpdateResume == \E frame \in inFlight : UpdateChannelConfigResume(frame)

\* three minutes pass
ConfigTick ==
    /\ dateNow + 3 <= MaxMinutes
    /\ dateNow' = dateNow + 3
    /\ UNCHANGED <<memoryVars, ret, inFlight, channelConfigs, configCache, lastCacheUpdate>>

NextConfig ==
    \/ ConfigGet
    \/ ConfigFindOne
    \/ ConfigGetResume
    \/ ConfigUpdate
    \/ ConfigUpdateOne
    \/ ConfigUpdateResume
    \/ ConfigTick

SpecConfig == InitAdmin /\ [][NextConfig]_vars

\* an updateChannelConfig for the key whose updateOne the store has applied and which
\* has not returned yet
UpdateReturning(key) ==
    \E f \in inFlight : f.op = "updateChannelConfig" /\ f.step = "resume" /\ f.key = key

\* C27: once updateChannelConfig has returned true, every later getChannelConfig for
\* that channel type returns the updated configuration and never the previous one, also
\* when another getChannelConfig for the key was awaiting the store at the moment of the
\* update and fills the cache afterwards. A call answered from the cache begins and
\* ends in one step, and every configuration that differs from the stored one is a
\* previous one, so: a getChannelConfig answered from the cache while no update of its
\* key is between the store's write and its return answers with the stored
\* configuration.
C27_UpdatedConfigServed ==
    (/\ ret.op = "getChannelConfig"
     /\ ret.value.fromCache
     /\ ~UpdateReturning(ret.message))
        => ret.value.config = channelConfigs[ret.message]

\* C28: getChannelConfig never serves a cached configuration that is older than the
\* cache expiry of five minutes, whichever other cache keys were filled in the
\* meantime (the age is counted from the moment the entry was put in the cache, which
\* is not before it was read from the store).
C28_NoExpiredEntryServed ==
    (ret.op = "getChannelConfig" /\ ret.value.fromCache)
        => ret.value.at - ret.value.cachedAt < CacheExpiry

-----------------------------------------------------------------------------
(* SpecSkills: interactions that mention skills, stored without store failure *)

MaxSkillLogs == 3

SkillStore ==
    \E u \in Users, m \in SkillMessages :
        /\ Len(discordLogs) < MaxSkillLogs
        /\ StoreInteraction(Interaction(u, "coding", m), NoStoreFailure)

SkillRead == \E u \in Users : GetRelevantContext(u, 14, NoReadFailure)

NextSkills == SkillStore \/ SkillRead

SpecSkills == InitAdmin /\ [][NextSkills]_vars

\* the skill names of the three vocabularies
SkillNames == Range(languages) \cup Range(frameworks) \cup Range(technologies)

\* the stored interactions of the user whose texts mention the skill
Mentioning(userId, skill) ==
    {i \in 1..Len(discordLogs) :
        /\ discordLogs[i].userId = userId
        /\ includes(toLowerCase(discordLogs[i].userMessage \o " " \o discordLogs[i].botResponse),
                    skill)}

\* C29: after N interactions that mention skill s have been stored for a user without
\* store failure, the SkillProgression keyed (user, s) has interactionCount = N and has
\* received exactly N recentInteractions pushes (N entries, the ring not being full):
\* one increment and one ring entry per interaction and skill name, for every skill
\* name of the three vocabularies, those in more than one vocabulary (typescript)
\* included.
C29_OneIncrementPerInteraction ==
    \A u \in Users, s \in SkillNames :
        \E n \in {Cardinality(Mentioning(u, s))} :
            \A i \in 1..Len(skillProgressions) :
                (skillProgressions[i].userId = u /\ skillProgressions[i].skill = s)
                    => /\ skillProgressions[i].interactionCount = n
                       /\ Len(skillProgressions[i].recentInteractions) = n

====
